---------------------------- MODULE Spec2Model ----------------------------
(***************************************************************************)
(* Breakout decision engine and session liquidation of the repository's    *)
(* two candle-driven programs:                                             *)
(*   live      src/live_candle_trader.py          (class LiveCandleTrader)  *)
(*   backtest  src/historical_breakout_backtest.py                          *)
(* The broker (kiteconnect) is the environment: every call to it either    *)
(* raises or returns, and what it returns is an input.                      *)
(* Prices are integers (rupees); the code's floats take the same values.    *)
(***************************************************************************)
EXTENDS Integers, Sequences, FiniteSets, TLC

\* Tracked symbols (--symbols) and one symbol the session does not track.
Symbols == {"A", "B"}
Untracked == "OTHER"

\* The price grid of the live trader: its candle and reference prices.  At
\* these prices a reference range of 5 sizes a position that costs half of
\* the capital or a little more, so that second entries and rejections for
\* insufficient capital both happen.
Prices == {250, 255, 260}

\* The price grid of the backtest, which reads one price (the close) per bar.
BarPrices == {250, 255, 260, 265}

\* ------------------------------------------------------------------ bounds
\* The number of ticks of tracked symbols delivered to a tick-driven program
\* in one session.
MaxTicks == 3

\* The simulated minute (after 09:21) that stands for the 15:01 end time.
EndMinute == 2

\* ------------------------------------------------------- program constants
\* times of the day, in seconds: 09:15:00, 09:20:00, 15:15:00, 15:00:00
BREAKOUT_START_TIME == 33300
MARKET_START == 33600
MARKET_END == 54900
STRATEGY_END == 54000
\* 10:00:00, after which on_ticks feeds no 5-minute candle
FIVE_MIN_END == 36000

INITIAL_CAPITAL == 360000
\* TOTAL_RISK_PERCENTAGE = 0.02, kept as the fraction 2/100
RISK_NUM == 2
RISK_DEN == 100

\* --------------------------------------------------------------- variables
VARIABLES
    program,                \* which script was started: "live" (LiveCandleTrader
                            \* driven candle by candle), "backtest", "trader"
                            \* (LiveCandleTrader driven by ticks) or "builder"
                            \* (CandleBuilder)
    \* LiveCandleTrader fields
    trading_active,
    available_capital,
    positions_taken,        \* insertion-ordered dict: sequence of position records
    quantity_map,           \* dict symbol -> quantity
    breakout_candles,       \* dict symbol -> [high, low] of the 09:15 5-minute candle
    breakout_candle_formed,
    \* the broker account (kite)
    broker_orders,          \* the order book; an order's id is its index
    broker_positions,       \* net quantity per symbol (product MIS)
    \* historical_breakout_backtest.py: module globals and trader fields
    TRADING_ACTIVE,
    AVAILABLE_CAPITAL,
    POSITIONS_TAKEN,        \* insertion-ordered dict, as positions_taken
    QUANTITY_MAP,
    CANDLE_MAP,             \* dict symbol -> [high, low] of the fetched 5-minute bar
    HISTORICAL_DATA_CACHE,  \* symbol -> the minutes of its cached 1-minute bars
    TRADES_TAKEN,           \* the trade ledger: ENTRY and EXIT records
    candles_initialized,
    simulated_time,         \* minutes after 09:21
    last_checked_minute,
    loop_pc,                \* position in start_trading: "head", "check", "done"
    loop_index,             \* index into SYMBOLS of the for loop of the check
    \* the wall clock (datetime.now()) as last read by a callback, in seconds
    \* of the day, and the number of ticks of tracked symbols delivered so far
    clock,
    ticks_seen,
    \* the symbols that were sent a tick while the clock read 09:15 to 09:20
    window_ticks,
    \* CandleBuilder fields
    current_minute,
    current_candles,        \* dict symbol -> open candle
    completed_candles,      \* defaultdict(list): symbol -> completed candles
    \* LiveCandleTrader: the candle fields
    current_1min,
    current_5min,
    current_1min_candles,
    current_5min_candles,
    completed_1min_candles,
    \* concurrent callbacks: the holder of candle_lock (0 when free), and per
    \* invocation its position in on_ticks and its locals
    candle_lock,
    pc,
    frame,
    \* observation of the last handler that ran and the branch it took
    last

live_vars == <<trading_active, available_capital, positions_taken, quantity_map,
               breakout_candles, breakout_candle_formed, broker_orders,
               broker_positions>>

backtest_vars == <<TRADING_ACTIVE, AVAILABLE_CAPITAL, POSITIONS_TAKEN, QUANTITY_MAP,
                   CANDLE_MAP, TRADES_TAKEN, candles_initialized, simulated_time,
                   last_checked_minute, loop_pc, loop_index,
                   HISTORICAL_DATA_CACHE>>

tick_vars == <<clock, ticks_seen, window_ticks, current_minute, current_candles,
               completed_candles, current_1min, current_5min,
               current_1min_candles, current_5min_candles,
               completed_1min_candles, candle_lock, pc, frame>>

\* the on_ticks invocations that can be in flight together
Invocations == {1, 2}

\* ----------------------------------------------------------------- helpers
EmptyMap == [x \in {} |-> 0]

Put(f, k, v) == [x \in DOMAIN f \cup {k} |-> IF x = k THEN v ELSE f[x]]

Abs(x) == IF x < 0 THEN -x ELSE x

\* keys of the positions dict, as a set
Keys(positions) == {positions[i].symbol : i \in DOMAIN positions}

\* completed candles handed to the decision code: low <= close <= high
Candles == {c \in [high : Prices, low : Prices, close : Prices] :
              c.low <= c.close /\ c.close <= c.high}

\* reference (breakout) candles: only high and low are read by the engine
RefCandles ==
    {c \in [high : Prices, low : Prices, timestamp : {BREAKOUT_START_TIME}] :
        c.low <= c.high}

\* reference candles of a high-priced symbol: the range of the opening five
\* minutes can exceed the risk allotted to one symbol
WideRefCandles ==
    [high : {260, 4250}, low : {250, 255}, timestamp : {BREAKOUT_START_TIME}]

\* a 5-minute candle of a later bucket (09:20)
LaterCandles == {[high |-> 260, low |-> 250, timestamp |-> MARKET_START]}


\* dict.update(): the keys of b override those of a
Update(a, b) == [k \in DOMAIN a \cup DOMAIN b |-> IF k \in DOMAIN b THEN b[k] ELSE a[k]]

\* ------------------------------------------------------------- the broker
\* kite.place_order of a MARKET order that the broker accepted: it is filled.
MarketOrder(symbol, transaction_type, quantity, by) ==
    [tradingsymbol |-> symbol, transaction_type |-> transaction_type,
     quantity |-> quantity, order_type |-> "MARKET", trigger_price |-> 0,
     product |-> "MIS", variety |-> "regular", status |-> "COMPLETE",
     placed_by |-> by]

\* kite.place_order of an SL order that the broker accepted: it waits for its trigger.
StopOrder(symbol, transaction_type, quantity, price) ==
    [tradingsymbol |-> symbol, transaction_type |-> transaction_type,
     quantity |-> quantity, order_type |-> "SL", trigger_price |-> price,
     product |-> "MIS", variety |-> "regular", status |-> "TRIGGER_PENDING",
     placed_by |-> "stop"]

\* An order of the same account that this session did not place.
ForeignOrder ==
    [tradingsymbol |-> Untracked, transaction_type |-> "BUY",
     quantity |-> 1, order_type |-> "LIMIT", trigger_price |-> 0,
     product |-> "CNC", variety |-> "regular", status |-> "OPEN",
     placed_by |-> "other"]

Signed(transaction_type, quantity) ==
    IF transaction_type = "BUY" THEN quantity ELSE 0 - quantity

\* the account after the broker accepted order o
Accept(book, o) ==
    [orders |-> Append(book.orders, o),
     net |-> IF o.order_type = "MARKET"
             THEN [book.net EXCEPT ![o.tradingsymbol] =
                       @ + Signed(o.transaction_type, o.quantity)]
             ELSE book.net]

\* the account after the broker cancelled order id
Cancelled(book, id) ==
    [book EXCEPT !.orders = [book.orders EXCEPT ![id].status = "CANCELLED"]]

\* what the account may hold when the program starts: nothing, or (after a
\* restart) a position of a tracked symbol and another session's open order
CleanBook == [orders |-> <<>>, net |-> [s \in Symbols \cup {Untracked} |-> 0]]
CarriedBook == [orders |-> <<ForeignOrder>>,
                net |-> [s \in Symbols \cup {Untracked} |->
                            IF s = "A" THEN 10 ELSE 0]]
InitialBooks == {CleanBook, CarriedBook}

\* ---------------------------------------------- LiveCandleTrader: sizing
\* int(per_stock_risk / breakout_range) with per_stock_risk =
\* INITIAL_CAPITAL * TOTAL_RISK_PERCENTAGE / len(breakout_candles)
calculate_quantities_from_breakout(candles) ==
    [s \in DOMAIN candles |->
        LET breakout_range == Abs(candles[s].high - candles[s].low)
        IN  IF breakout_range > 0
            THEN (INITIAL_CAPITAL * RISK_NUM)
                    \div (RISK_DEN * Cardinality(DOMAIN candles) * breakout_range)
            ELSE 1]

\* ------------------------------------------ LiveCandleTrader: the gate
\* a test that takes every completed 5-minute candle for the 09:15 candle
IsBreakoutCandle_Any(candle) == TRUE

\* a test that opens the gate with the first recorded reference
AllFormed_Any(candles) == Cardinality(DOMAIN candles) >= 1

\* candle['timestamp'].time() == BREAKOUT_START_TIME
IsBreakoutCandle(candle) == candle.timestamp % 86400 = BREAKOUT_START_TIME

\* len(self.breakout_candles) == len(self.token_symbols)
AllFormed(candles) == Cardinality(DOMAIN candles) = Cardinality(Symbols)

\* the body of the if of complete_5min_candle: record the reference and,
\* when every symbol has one, compute the quantities and open the gate
set_breakout_candle(gate, symbol, candle) ==
    LET recorded == Put(gate.breakout_candles, symbol, candle)
    IN  [breakout_candles |-> recorded,
         quantity_map |-> IF AllFormed(recorded)
                          THEN Update(gate.quantity_map,
                                      calculate_quantities_from_breakout(recorded))
                          ELSE gate.quantity_map,
         breakout_candle_formed |-> (AllFormed(recorded)
                                     \/ gate.breakout_candle_formed)]

\* ------------------------------- LiveCandleTrader: the breakout decision
\* mutant: the membership test is lost
AlreadyEntered_Never(positions, symbol) == FALSE

\* if symbol in self.positions_taken: return
AlreadyEntered(positions, symbol) == symbol \in Keys(positions)

\* mutant: the price of one share is charged, whatever the quantity
DeployedCapital_PerShare(quantity, candle_close) == candle_close

\* deployed_capital = quantity * candle_close
DeployedCapital(quantity, candle_close) == quantity * candle_close

\* mutant: the need is compared with the initial capital
InsufficientCapital_Initial(deployed_capital, available) ==
    deployed_capital > INITIAL_CAPITAL

\* if deployed_capital > self.available_capital: SKIP
InsufficientCapital(deployed_capital, available) == deployed_capital > available

\* mutant: the long side yields to the short side when both are crossed
LongBreakout_UnlessShort(candle, breakout_candle) ==
    candle.high > breakout_candle.high /\ ~(candle.low < breakout_candle.low)

\* LONG breakout: candle high > breakout high
LongBreakout(candle, breakout_candle) == candle.high > breakout_candle.high

\* SHORT breakout: candle low < breakout low
ShortBreakout(candle, breakout_candle) == candle.low < breakout_candle.low

\* mutant: the stop is put at the extreme the entry broke through
StopLossPrice_SameSide(direction, breakout_candle) ==
    IF direction = "BUY" THEN breakout_candle.high ELSE breakout_candle.low

\* stop loss at breakout low for a long, at breakout high for a short
StopLossPrice(direction, breakout_candle) ==
    IF direction = "BUY" THEN breakout_candle.low ELSE breakout_candle.high

\* sl_transaction_type = SELL if direction == 'BUY' else BUY
SlTransactionType(direction) == IF direction = "BUY" THEN "SELL" ELSE "BUY"

\* place_stop_loss_order: the SL order, or None (here the empty dict) when
\* the broker call raises; the exception never leaves the method
place_stop_loss_order(book, symbol, quantity, direction, stop_loss_price, slOk) ==
    IF slOk
    THEN [book |-> Accept(book, StopOrder(symbol, SlTransactionType(direction),
                                          quantity, stop_loss_price)),
          sl_info |-> [stop_loss_order_id |-> Len(book.orders) + 1,
                       stop_loss_price |-> stop_loss_price]]
    ELSE [book |-> book, sl_info |-> EmptyMap]

\* mutant: a rejected signal writes the remaining capital off
Skipped_WrittenOff(tr) ==
    [capital |-> 0, positions |-> tr.positions, book |-> tr.book, path |-> "skip"]

\* the SKIP branch: log and return
Skipped(tr) ==
    [capital |-> tr.capital, positions |-> tr.positions, book |-> tr.book,
     path |-> "skip"]

\* the except branch of an entry whose place_order raised: log only
EntryFailed(tr, direction) ==
    [capital |-> tr.capital, positions |-> tr.positions, book |-> tr.book,
     path |-> IF direction = "BUY" THEN "buy_failed" ELSE "sell_failed"]

\* mutant: place_stop_loss_order lets the broker's exception through; the
\* except branch of the entry catches it after the capital was decremented
\* and before the position is recorded
EntryTaken_StopRaises(tr, symbol, direction, quantity, candle_close, breakout_candle, slOk) ==
    LET entered == Accept(tr.book, MarketOrder(symbol, direction, quantity, "entry"))
        sl == place_stop_loss_order(entered, symbol, quantity, direction,
                                    StopLossPrice(direction, breakout_candle), slOk)
        position_data == [symbol |-> symbol, direction |-> direction,
                          quantity |-> quantity, price |-> candle_close]
    IN  [capital |-> tr.capital - DeployedCapital(quantity, candle_close),
         positions |-> IF slOk
                       THEN Append(tr.positions, Update(position_data, sl.sl_info))
                       ELSE tr.positions,
         book |-> sl.book,
         path |-> IF direction = "BUY" THEN "buy" ELSE "sell"]

\* the try body after place_order returned: capital, stop loss, position
EntryTaken(tr, symbol, direction, quantity, candle_close, breakout_candle, slOk) ==
    LET entered == Accept(tr.book, MarketOrder(symbol, direction, quantity, "entry"))
        sl == place_stop_loss_order(entered, symbol, quantity, direction,
                                    StopLossPrice(direction, breakout_candle), slOk)
        position_data == [symbol |-> symbol, direction |-> direction,
                          quantity |-> quantity, price |-> candle_close]
    IN  [capital |-> tr.capital - DeployedCapital(quantity, candle_close),
         positions |-> Append(tr.positions, Update(position_data, sl.sl_info)),
         book |-> sl.book,
         path |-> IF direction = "BUY" THEN "buy" ELSE "sell"]

\* mutant: the capital is decremented before place_order is called, so an
\* order that raises leaves it decremented
check_breakout_entry_ChargeFirst(tr, symbol, candle, breakout_candle, quantity, entryOk, slOk) ==
    LET charged == [tr EXCEPT !.capital =
                        @ - DeployedCapital(quantity, candle.close)]
    IN  IF AlreadyEntered(tr.positions, symbol)
        THEN [capital |-> tr.capital, positions |-> tr.positions, book |-> tr.book,
              path |-> "in_position"]
        ELSE IF InsufficientCapital(DeployedCapital(quantity, candle.close), tr.capital)
        THEN Skipped(tr)
        ELSE IF LongBreakout(candle, breakout_candle)
        THEN IF entryOk
             THEN EntryTaken(tr, symbol, "BUY", quantity, candle.close,
                             breakout_candle, slOk)
             ELSE EntryFailed(charged, "BUY")
        ELSE IF ShortBreakout(candle, breakout_candle)
        THEN IF entryOk
             THEN EntryTaken(tr, symbol, "SELL", quantity, candle.close,
                             breakout_candle, slOk)
             ELSE EntryFailed(charged, "SELL")
        ELSE [capital |-> tr.capital, positions |-> tr.positions, book |-> tr.book,
              path |-> "no_breakout"]

check_breakout_entry(tr, symbol, candle, breakout_candle, quantity, entryOk, slOk) ==
    IF AlreadyEntered(tr.positions, symbol)
    THEN [capital |-> tr.capital, positions |-> tr.positions, book |-> tr.book,
          path |-> "in_position"]
    ELSE IF InsufficientCapital(DeployedCapital(quantity, candle.close), tr.capital)
    THEN Skipped(tr)
    ELSE IF LongBreakout(candle, breakout_candle)
    THEN IF entryOk
         THEN EntryTaken(tr, symbol, "BUY", quantity, candle.close, breakout_candle, slOk)
         ELSE EntryFailed(tr, "BUY")
    ELSE IF ShortBreakout(candle, breakout_candle)
    THEN IF entryOk
         THEN EntryTaken(tr, symbol, "SELL", quantity, candle.close, breakout_candle, slOk)
         ELSE EntryFailed(tr, "SELL")
    ELSE [capital |-> tr.capital, positions |-> tr.positions, book |-> tr.book,
          path |-> "no_breakout"]

\* the trader's fields the decision reads and writes, as one value
Trader == [capital |-> available_capital, positions |-> positions_taken,
           book |-> [orders |-> broker_orders, net |-> broker_positions]]

\* outcomes of the broker calls of one entry attempt
EntryOutcomes == {[entryOk |-> FALSE, slOk |-> FALSE],
                  [entryOk |-> TRUE, slOk |-> FALSE],
                  [entryOk |-> TRUE, slOk |-> TRUE]}

\* ------------------------------------- LiveCandleTrader: liquidation
\* one broker request made while liquidating, and whether it returned
Call(call, by, symbol, order_id, transaction_type, quantity, ok) ==
    [call |-> call, by |-> by, symbol |-> symbol, order_id |-> order_id,
     transaction_type |-> transaction_type, quantity |-> quantity, ok |-> ok]

\* opposite_direction = SELL if position['direction'] == 'BUY' else BUY
OppositeDirection(direction) == IF direction = "BUY" THEN "SELL" ELSE "BUY"

\* mutant: the closing order is placed before the stop order is cancelled
close_position_CloseFirst(acc, position, slCancelOk, closeOk) ==
    LET hasStop == "stop_loss_order_id" \in DOMAIN position
        closing == MarketOrder(position.symbol,
                               OppositeDirection(position.direction),
                               position.quantity, "close")
        afterClose ==
            [book |-> IF closeOk THEN Accept(acc.book, closing) ELSE acc.book,
             calls |-> Append(acc.calls,
                          Call("place_order", "close_all_positions", position.symbol,
                               0, closing.transaction_type, closing.quantity, closeOk))]
    IN  IF hasStop
        THEN [book |-> IF slCancelOk
                       THEN Cancelled(afterClose.book, position.stop_loss_order_id)
                       ELSE afterClose.book,
              calls |-> Append(afterClose.calls,
                           Call("cancel_order", "close_all_positions",
                                position.symbol, position.stop_loss_order_id,
                                "", 0, slCancelOk))]
        ELSE afterClose

\* the body of the for loop of close_all_positions for one position:
\* cancel its stop loss if it has one, then place the closing order; a
\* failure of either is logged and the loop goes on
close_position(acc, position, slCancelOk, closeOk) ==
    LET hasStop == "stop_loss_order_id" \in DOMAIN position
        afterCancel ==
            IF hasStop
            THEN [book |-> IF slCancelOk
                           THEN Cancelled(acc.book, position.stop_loss_order_id)
                           ELSE acc.book,
                  calls |-> Append(acc.calls,
                               Call("cancel_order", "close_all_positions",
                                    position.symbol, position.stop_loss_order_id,
                                    "", 0, slCancelOk))]
            ELSE acc
        closing == MarketOrder(position.symbol,
                               OppositeDirection(position.direction),
                               position.quantity, "close")
    IN  [book |-> IF closeOk THEN Accept(afterCancel.book, closing)
                  ELSE afterCancel.book,
         calls |-> Append(afterCancel.calls,
                      Call("place_order", "close_all_positions", position.symbol,
                           0, closing.transaction_type, closing.quantity, closeOk))]

RECURSIVE close_positions(_, _, _, _)
close_positions(acc, positions, slCancelOk, closeOk) ==
    IF positions = <<>>
    THEN acc
    ELSE close_positions(
            close_position(acc, Head(positions), slCancelOk[Head(positions).symbol],
                           closeOk[Head(positions).symbol]),
            Tail(positions), slCancelOk, closeOk)

\* mutant: one try around the whole loop, so the first position whose
\* closing order raises ends the loop
RECURSIVE close_positions_Abort(_, _, _, _)
close_positions_Abort(acc, positions, slCancelOk, closeOk) ==
    IF positions = <<>>
    THEN acc
    ELSE LET one == close_position(acc, Head(positions),
                                   slCancelOk[Head(positions).symbol],
                                   closeOk[Head(positions).symbol])
         IN  IF closeOk[Head(positions).symbol]
             THEN close_positions_Abort(one, Tail(positions), slCancelOk, closeOk)
             ELSE one

close_all_positions_Abort(book, positions, slCancelOk, closeOk) ==
    close_positions_Abort([book |-> book, calls |-> <<>>], positions,
                          slCancelOk, closeOk)

\* close_all_positions: iterates the local positions_taken only
close_all_positions(book, positions, slCancelOk, closeOk) ==
    close_positions([book |-> book, calls |-> <<>>], positions, slCancelOk, closeOk)

\* open_orders = [o for o in orders if o['status'] in ['OPEN', 'TRIGGER_PENDING']]
OpenOrderIds(orders) ==
    {i \in DOMAIN orders : orders[i].status \in {"OPEN", "TRIGGER_PENDING"}}

RECURSIVE cancel_orders(_, _, _, _)
cancel_orders(acc, ids, next, cancelFails) ==
    IF next > Len(acc.book.orders)
    THEN acc
    ELSE cancel_orders(
            IF next \in ids
            THEN [book |-> IF next \in cancelFails THEN acc.book
                           ELSE Cancelled(acc.book, next),
                  calls |-> Append(acc.calls,
                               Call("cancel_order", "cancel_all_orders",
                                    acc.book.orders[next].tradingsymbol, next,
                                    "", 0, next \notin cancelFails))]
            ELSE acc,
            ids, next + 1, cancelFails)

\* cancel_all_orders: kite.orders(), then one cancel per open order
cancel_all_orders(acc, ordersOk, cancelFails) ==
    IF ~ordersOk
    THEN [book |-> acc.book,
          calls |-> Append(acc.calls,
                       Call("orders", "cancel_all_orders", "", 0, "", 0, FALSE))]
    ELSE cancel_orders(
            [book |-> acc.book,
             calls |-> Append(acc.calls,
                          Call("orders", "cancel_all_orders", "", 0, "", 0, TRUE))],
            OpenOrderIds(acc.book.orders), 1, cancelFails)

\* ------------------------------------------------- backtest: reference
\* SYMBOLS, in command-line order
SYMBOLS == <<"A", "B">>

\* what kite.historical_data(..., "5minute") may do for one symbol: a candle
\* on the price grid, one of range 20, one whose range exceeds the risk
\* allotted to a symbol, an empty answer, or an exception
Fetches == {[kind |-> "candle", high |-> c.high, low |-> c.low] :
              c \in {r \in [high : BarPrices, low : BarPrices] : r.low <= r.high}}
           \cup {[kind |-> "candle", high |-> 270, low |-> 250],
                 [kind |-> "candle", high |-> 4250, low |-> 250]}
           \cup {[kind |-> "empty", high |-> 0, low |-> 0],
                 [kind |-> "raises", high |-> 0, low |-> 0]}

\* the answers tried per symbol: every one for A, for B a candle of range
\* 10, of range 5, of range 0, of range 20, no candle, and an exception
FetchesOf(symbol) ==
    IF symbol = "A"
    THEN Fetches
    ELSE {f \in Fetches :
             \/ f.kind # "candle"
             \/ f.high = 260 /\ f.low \in {250, 255}
             \/ f.high = 255 /\ f.low = 255
             \/ f.high = 270}

FetchRounds == {fetch \in [Symbols -> Fetches] :
                   \A s \in Symbols : fetch[s] \in FetchesOf(s)}

\* first loop of initialize_candle_data: CANDLE_MAP[symbol] = [first_candle]
\* for every symbol up to the first whose fetch raises; an empty answer is
\* logged and skipped
RECURSIVE fetch_candles(_, _, _)
fetch_candles(candle_map, i, fetch) ==
    IF i > Len(SYMBOLS)
    THEN [candle_map |-> candle_map, raised |-> FALSE, symbol |-> ""]
    ELSE LET f == fetch[SYMBOLS[i]]
         IN  IF f.kind = "raises"
             THEN [candle_map |-> candle_map, raised |-> TRUE, symbol |-> SYMBOLS[i]]
             ELSE fetch_candles(
                     IF f.kind = "empty" THEN candle_map
                     ELSE Put(candle_map, SYMBOLS[i], [high |-> f.high, low |-> f.low]),
                     i + 1, fetch)

\* quantity = max(1, int(per_stock_risk / breakout_range))
Max(a, b) == IF a >= b THEN a ELSE b

\* a sizing that gives every symbol the whole risk budget
backtest_quantity_Undivided(breakout_range) ==
    Max(1, (INITIAL_CAPITAL * RISK_NUM) \div (RISK_DEN * breakout_range))

backtest_quantity(breakout_range) ==
    Max(1, (INITIAL_CAPITAL * RISK_NUM) \div (RISK_DEN * Len(SYMBOLS) * breakout_range))

\* second loop of initialize_candle_data: CANDLE_MAP[symbol] raises KeyError
\* for a symbol without a candle, and the division raises ZeroDivisionError
\* for a candle with high = low; the quantities set before that stay set
RECURSIVE size_symbols(_, _, _)
size_symbols(quantities, i, candle_map) ==
    IF i > Len(SYMBOLS)
    THEN [quantities |-> quantities, raised |-> FALSE, error |-> "", symbol |-> ""]
    ELSE IF SYMBOLS[i] \notin DOMAIN candle_map
    THEN [quantities |-> quantities, raised |-> TRUE, error |-> "KeyError",
          symbol |-> SYMBOLS[i]]
    ELSE LET breakout_range == Abs(candle_map[SYMBOLS[i]].high - candle_map[SYMBOLS[i]].low)
         IN  IF breakout_range = 0
             THEN [quantities |-> quantities, raised |-> TRUE,
                   error |-> "ZeroDivisionError", symbol |-> SYMBOLS[i]]
             ELSE size_symbols(Put(quantities, SYMBOLS[i], backtest_quantity(breakout_range)),
                               i + 1, candle_map)

initialize_candle_data(candle_map, quantities, fetch) ==
    LET fetched == fetch_candles(candle_map, 1, fetch)
        sized == size_symbols(quantities, 1, fetched.candle_map)
    IN  IF fetched.raised
        THEN [candle_map |-> fetched.candle_map, quantities |-> quantities,
              initialized |-> FALSE, error |-> "historical_data",
              symbol |-> fetched.symbol]
        ELSE [candle_map |-> fetched.candle_map, quantities |-> sized.quantities,
              initialized |-> ~sized.raised, error |-> sized.error,
              symbol |-> sized.symbol]

\* ------------------------------------------- backtest: the cached bars
\* the minutes, counted from 09:21, of the 1-minute bars that
\* fetch_all_historical_data may have cached for a symbol: 09:19 (inside
\* the reference window), 09:20, 09:21, 09:22
CachedMinutes == {0 - 2, 0 - 1, 0, 1}

\* HISTORICAL_DATA_CACHE after fetch_all_historical_data: every symbol has a
\* list, empty when the fetch returned nothing or raised
CachesOf(symbol) ==
    IF symbol = "A"
    THEN {{}, {0 - 1}, {0 - 1, 0}, {1}}
    ELSE {{}, {0 - 2, 0 - 1, 0}}

Caches == {cache \in [Symbols -> SUBSET CachedMinutes] :
              \A s \in Symbols : cache[s] \in CachesOf(s)}

NoCache == [s \in Symbols |-> {}]

\* a check that looks two minutes back
previous_completed_minute_Earlier(current_time) == current_time - 2

\* previous_minute of check_breakouts_from_cached_data: the minute before
\* the simulated one
previous_completed_minute(current_time) == current_time - 1

\* is_cached_data_exhausted: no symbol has a candle at or after the previous
\* minute
is_cached_data_exhausted_Strict(cache, current_time) ==
    LET previous_minute == current_time - 1
    IN  \A i \in DOMAIN SYMBOLS : \A candle_minute \in cache[SYMBOLS[i]] : ~(candle_minute > previous_minute)

is_cached_data_exhausted(cache, current_time) ==
    LET previous_minute == current_time - 1
    IN  \A i \in DOMAIN SYMBOLS :
           \A candle_minute \in cache[SYMBOLS[i]] : ~(candle_minute >= previous_minute)

\* ---------------------------------------- backtest: the breakout decision
\* current_price > breakout_candle['high']
UpwardBreakout(current_price, breakout_candle) == current_price > breakout_candle.high

\* current_price < breakout_candle['low']
DownwardBreakout(current_price, breakout_candle) == current_price < breakout_candle.low

Ledger == [capital |-> AVAILABLE_CAPITAL, positions |-> POSITIONS_TAKEN,
           trades |-> TRADES_TAKEN]

\* the SKIP branch of check_breakout_for_symbol
BacktestSkipped(lg) ==
    [capital |-> lg.capital, positions |-> lg.positions, trades |-> lg.trades,
     path |-> "skip"]

\* the try body of an entry: no order is sent (the calls are commented
\* out), the ledger, the ENTRY record and the position are written
BacktestEntry(lg, symbol, direction, quantity, current_price, breakout_candle) ==
    LET deployed_capital == DeployedCapital(quantity, current_price)
        stop_loss_price == StopLossPrice(direction, breakout_candle)
    IN  [capital |-> lg.capital - deployed_capital,
         positions |-> Append(lg.positions,
                          [symbol |-> symbol, direction |-> direction,
                           quantity |-> quantity, price |-> current_price,
                           stop_loss_order_id |-> "N/A",
                           stop_loss_price |-> stop_loss_price]),
         trades |-> Append(lg.trades,
                       [trade_type |-> "ENTRY", symbol |-> symbol,
                        action |-> direction, quantity |-> quantity,
                        price |-> current_price,
                        deployed_capital |-> deployed_capital,
                        stop_loss_price |-> stop_loss_price]),
         path |-> IF direction = "BUY" THEN "buy" ELSE "sell"]

check_breakout_for_symbol(lg, symbol, current_candle, quantity, breakout_candle) ==
    IF AlreadyEntered(lg.positions, symbol)
    THEN [capital |-> lg.capital, positions |-> lg.positions, trades |-> lg.trades,
          path |-> "in_position"]
    ELSE IF InsufficientCapital(DeployedCapital(quantity, current_candle.close),
                                lg.capital)
    THEN BacktestSkipped(lg)
    ELSE IF UpwardBreakout(current_candle.close, breakout_candle)
    THEN BacktestEntry(lg, symbol, "BUY", quantity, current_candle.close, breakout_candle)
    ELSE IF DownwardBreakout(current_candle.close, breakout_candle)
    THEN BacktestEntry(lg, symbol, "SELL", quantity, current_candle.close, breakout_candle)
    ELSE [capital |-> lg.capital, positions |-> lg.positions, trades |-> lg.trades,
          path |-> "no_breakout"]

\* ------------------------------------------------- backtest: liquidation
\* what kite.positions()['net'] may report
ReportedPosition(symbol, product, quantity) ==
    [tradingsymbol |-> symbol, product |-> product, quantity |-> quantity]

Reports ==
    LET a == ReportedPosition("A", "MIS", 10)
        b == ReportedPosition("B", "MIS", 0 - 5)
        z == ReportedPosition("B", "MIS", 0)
        c == ReportedPosition("A", "CNC", 3)
        u == ReportedPosition(Untracked, "MIS", 7)
    IN  {<<>>, <<a>>, <<b>>, <<a, b>>, <<z, c, u>>, <<u, a, c, b>>}

\* mutant: the symbol filter is lost
IsOpenPosition_AnySymbol(position) ==
    position.product = "MIS" /\ position.quantity # 0

\* product == 'MIS' and quantity != 0 and tradingsymbol in SYMBOLS
IsOpenPosition(position) ==
    /\ position.product = "MIS"
    /\ position.quantity # 0
    /\ position.tradingsymbol \in {SYMBOLS[i] : i \in DOMAIN SYMBOLS}

\* the EXIT record written for one reported position
ExitRecord(position) ==
    [trade_type |-> "EXIT", symbol |-> position.tradingsymbol,
     action |-> IF position.quantity > 0 THEN "SELL" ELSE "BUY",
     quantity |-> Abs(position.quantity), price |-> 0, deployed_capital |-> 0,
     stop_loss_price |-> 0]

RECURSIVE exit_records(_)
exit_records(report) ==
    IF report = <<>> THEN <<>>
    ELSE IF IsOpenPosition(Head(report))
         THEN <<ExitRecord(Head(report))>> \o exit_records(Tail(report))
         ELSE exit_records(Tail(report))

\* closeAllPositions: the local positions are cleared only when the broker
\* answered and reported an open position
closeAllPositions(lg, positionsOk, report) ==
    IF ~positionsOk \/ exit_records(report) = <<>>
    THEN [positions |-> lg.positions, trades |-> lg.trades]
    ELSE [positions |-> <<>>, trades |-> lg.trades \o exit_records(report)]

\* ------------------------------------------------- candles built from ticks
\* None, for a clock field that was never set
NoTime == 0 - 1

\* timestamp.replace(second=0, microsecond=0), on seconds of the day
MinuteOf(timestamp) == timestamp - (timestamp % 60)

\* timestamp.replace(minute=(timestamp.minute // 5) * 5, second=0, microsecond=0)
FiveMinuteOf(timestamp) == timestamp - (timestamp % 300)

\* the wall-clock readings of the CandleBuilder callbacks: 09:19:00,
\* 09:19:30, 09:20:00, 09:21:10
BuilderInstants == {33540, 33570, 33600, 33670}

\* the volume a tick reports
Volumes == {100}

\* a tick of a KiteTicker batch: the symbol of its instrument_token (the
\* untracked one has no entry in token_symbols), its last_price, its
\* volume_traded, and the minute of its exchange timestamp, which is the
\* minute of the callback's clock reading or, for a late tick, an earlier one
Tick(symbol, last_price, volume_traded, minute) ==
    [symbol |-> symbol, last_price |-> last_price,
     volume_traded |-> volume_traded, minute |-> minute]

\* the prices at which a symbol ticks: A moves over the grid, B stays put
TickPrices(symbol) == IF symbol = "A" THEN Prices ELSE {255}

\* ticks of tracked symbols stamped with the minute of the callback
TimelyTicks(now) ==
    UNION {{Tick(s, p, v, MinuteOf(now)) : p \in TickPrices(s), v \in Volumes} :
              s \in Symbols}

\* a tick stamped with the minute before: it was delayed on its way
LateTicks(now) ==
    {Tick(s, p, v, MinuteOf(now) - 60) : s \in {"A"}, p \in {250}, v \in Volumes}

\* a tick of an instrument the session did not subscribe
UntrackedTicks(now) ==
    {Tick(Untracked, p, v, MinuteOf(now)) : p \in {260}, v \in Volumes}

\* the batches handed to on_ticks: one tick, or a tick of each tracked symbol
Batches(now) ==
    {<<t>> : t \in TimelyTicks(now) \cup LateTicks(now) \cup UntrackedTicks(now)}
    \cup {<<t, u>> : t \in {x \in TimelyTicks(now) : x.symbol = "A"},
                     u \in {x \in TimelyTicks(now) : x.symbol = "B"}}

\* initialize_candle of CandleBuilder and of LiveCandleTrader (whose
\* candle_type '5min' rounds the timestamp to the 5-minute boundary)
initialize_candle(symbol, price, timestamp, candle_type) ==
    [symbol |-> symbol,
     timestamp |-> IF candle_type = "1min" THEN MinuteOf(timestamp)
                   ELSE FiveMinuteOf(timestamp),
     open |-> price, high |-> price, low |-> price, close |-> price,
     volume |-> 0, tick_count |-> 0,
     first_tick_time |-> timestamp, last_tick_time |-> timestamp]

\* update_candle that leaves close at the opening price
update_candle_KeepClose(candle, price, volume, timestamp) ==
    [candle EXCEPT !.high = IF price > @ THEN price ELSE @,
                   !.low = IF price < @ THEN price ELSE @,
                   !.volume = @ + volume,
                   !.tick_count = @ + 1,
                   !.last_tick_time = timestamp]

\* update_candle without the two comparisons
update_candle_CloseOnly(candle, price, volume, timestamp) ==
    [candle EXCEPT !.close = price,
                   !.volume = @ + volume,
                   !.tick_count = @ + 1,
                   !.last_tick_time = timestamp]

\* update_candle: strict comparisons against the running extremes, close is
\* the latest price, volume and tick_count accumulate
update_candle(candle, price, volume, timestamp) ==
    [candle EXCEPT !.high = IF price > @ THEN price ELSE @,
                   !.low = IF price < @ THEN price ELSE @,
                   !.close = price,
                   !.volume = @ + volume,
                   !.tick_count = @ + 1,
                   !.last_tick_time = timestamp]

\* not part of the program: the ticks a candle was built from, in arrival
\* order, kept beside the candle's own fields
Ingested(candle) ==
    IF "ingested" \in DOMAIN candle THEN candle.ingested ELSE <<>>

Noting(candle, before, tick) ==
    Update(candle, [ingested |-> Append(Ingested(before), tick)])

\* the dict without the key (del d[k])
Without(f, k) == [x \in DOMAIN f \ {k} |-> f[x]]

\* ---------------------------------------------------------- CandleBuilder
\* the fields of the builder, as one value
Builder == [current_minute |-> current_minute,
            current_candles |-> current_candles,
            completed_candles |-> completed_candles]

\* complete_candle without the del of the open candle
complete_candle_KeepOpen(cb, symbol) ==
    IF symbol \notin DOMAIN cb.current_candles
    THEN cb
    ELSE [cb EXCEPT !.completed_candles[symbol] =
                        Append(@, cb.current_candles[symbol])]

\* complete_candle: append a copy to the history, delete from the open set
complete_candle(cb, symbol) ==
    IF symbol \notin DOMAIN cb.current_candles
    THEN cb
    ELSE [cb EXCEPT !.completed_candles[symbol] =
                        Append(@, cb.current_candles[symbol]),
                    !.current_candles = Without(@, symbol)]

\* the for loop over list(self.current_candles.keys())
RECURSIVE complete_candles(_, _)
complete_candles(cb, symbols_to_complete) ==
    IF symbols_to_complete = {}
    THEN cb
    ELSE LET symbol == CHOOSE x \in symbols_to_complete : TRUE
         IN  complete_candles(complete_candle(cb, symbol),
                              symbols_to_complete \ {symbol})

\* check_minute_change that moves the tracked minute and completes nothing
check_minute_change_KeepOpen(cb, current_time) ==
    IF cb.current_minute = NoTime \/ MinuteOf(current_time) > cb.current_minute
    THEN [cb EXCEPT !.current_minute = MinuteOf(current_time)]
    ELSE cb

\* check_minute_change: the first reading only sets current_minute; a later
\* minute completes every open candle
check_minute_change(cb, current_time) ==
    IF cb.current_minute = NoTime
    THEN [cb EXCEPT !.current_minute = MinuteOf(current_time)]
    ELSE IF MinuteOf(current_time) > cb.current_minute
    THEN [complete_candles(cb, DOMAIN cb.current_candles)
             EXCEPT !.current_minute = MinuteOf(current_time)]
    ELSE cb

\* the ticks of a batch that on_ticks does not skip
RECURSIVE Tracked(_)
Tracked(ticks) ==
    IF ticks = <<>> THEN <<>>
    ELSE IF Head(ticks).symbol \in Symbols
         THEN <<Head(ticks)>> \o Tracked(Tail(ticks))
         ELSE Tracked(Tail(ticks))

\* the body of the for loop of on_ticks for one tick
builder_tick(cb, tick, current_time) ==
    IF tick.symbol \notin Symbols
    THEN cb
    ELSE IF tick.symbol \notin DOMAIN cb.current_candles
    THEN [cb EXCEPT !.current_candles =
             Put(@, tick.symbol,
                 Noting(initialize_candle(tick.symbol, tick.last_price,
                                          current_time, "1min"),
                        EmptyMap, tick))]
    ELSE [cb EXCEPT !.current_candles[tick.symbol] =
             Noting(update_candle(@, tick.last_price, tick.volume_traded,
                                  current_time),
                    @, tick)]

RECURSIVE builder_ticks(_, _, _)
builder_ticks(cb, ticks, current_time) ==
    IF ticks = <<>>
    THEN cb
    ELSE builder_ticks(builder_tick(cb, Head(ticks), current_time),
                       Tail(ticks), current_time)


\* ------------------------------------- LiveCandleTrader driven by ticks
\* an insertion-ordered dict of candles, as a sequence: lookup, assignment
\* and deletion by the candle's symbol
Get(candles, symbol) ==
    candles[CHOOSE i \in DOMAIN candles : candles[i].symbol = symbol]

Set(candles, candle) ==
    IF candle.symbol \in Keys(candles)
    THEN [i \in DOMAIN candles |->
             IF candles[i].symbol = candle.symbol THEN candle ELSE candles[i]]
    ELSE Append(candles, candle)

Del(candles, symbol) ==
    SelectSeq(candles, LAMBDA c : c.symbol # symbol)

\* the trader's fields, as one value
TickTrader ==
    [current_1min |-> current_1min, current_5min |-> current_5min,
     current_1min_candles |-> current_1min_candles,
     current_5min_candles |-> current_5min_candles,
     completed_1min_candles |-> completed_1min_candles,
     breakout_candles |-> breakout_candles, quantity_map |-> quantity_map,
     breakout_candle_formed |-> breakout_candle_formed,
     capital |-> available_capital, positions |-> positions_taken,
     book |-> [orders |-> broker_orders, net |-> broker_positions],
     raised |-> {}]

\* the broker requests of one entry decision that raised: the entry order,
\* or the stop order of an entry that was placed
RaisedIn(symbol, path, outcome) ==
    IF path \in {"buy_failed", "sell_failed"} THEN {<<symbol, "entry">>}
    ELSE IF path \in {"buy", "sell"} /\ ~outcome.slOk THEN {<<symbol, "stop">>}
    ELSE {}

\* complete_1min_candle(symbol): history, then the entry decision when
\* every reference is formed, then removal from the open set
completed_1min_candle(tl, symbol, outcome) ==
    IF symbol \notin Keys(tl.current_1min_candles)
    THEN tl
    ELSE LET candle == Get(tl.current_1min_candles, symbol)
             kept == [tl EXCEPT !.completed_1min_candles[symbol] = Append(@, candle)]
             r == check_breakout_entry(
                     [capital |-> tl.capital, positions |-> tl.positions,
                      book |-> tl.book],
                     symbol, candle, tl.breakout_candles[symbol],
                     tl.quantity_map[symbol], outcome.entryOk, outcome.slOk)
             decided ==
                 IF /\ tl.breakout_candle_formed
                    /\ symbol \in DOMAIN tl.breakout_candles
                    /\ symbol \in DOMAIN tl.quantity_map
                 THEN [kept EXCEPT !.capital = r.capital,
                                   !.positions = r.positions,
                                   !.book = r.book,
                                   !.raised = @ \cup RaisedIn(symbol, r.path, outcome)]
                 ELSE kept
         IN  [decided EXCEPT !.current_1min_candles = Del(@, symbol)]

\* complete_5min_candle(symbol): the candle of the 09:15 bucket becomes the
\* symbol's reference; the quantities are computed when every symbol has one
completed_5min_candle(tl, symbol) ==
    IF symbol \notin Keys(tl.current_5min_candles)
    THEN tl
    ELSE LET candle == Get(tl.current_5min_candles, symbol)
             gate == IF IsBreakoutCandle(candle)
                     THEN set_breakout_candle(
                             [breakout_candles |-> tl.breakout_candles,
                              quantity_map |-> tl.quantity_map,
                              breakout_candle_formed |-> tl.breakout_candle_formed],
                             symbol, candle)
                     ELSE [breakout_candles |-> tl.breakout_candles,
                           quantity_map |-> tl.quantity_map,
                           breakout_candle_formed |-> tl.breakout_candle_formed]
         IN  [tl EXCEPT !.breakout_candles = gate.breakout_candles,
                        !.quantity_map = gate.quantity_map,
                        !.breakout_candle_formed = gate.breakout_candle_formed,
                        !.current_5min_candles = Del(@, symbol)]

\* for symbol in list(self.current_1min_candles.keys())
RECURSIVE complete_1min_candles(_, _, _)
complete_1min_candles(tl, symbols_to_complete, outcomes) ==
    IF symbols_to_complete = <<>>
    THEN tl
    ELSE complete_1min_candles(
            completed_1min_candle(tl, Head(symbols_to_complete),
                                  outcomes[Head(symbols_to_complete)]),
            Tail(symbols_to_complete), outcomes)

\* for symbol in list(self.current_5min_candles.keys())
RECURSIVE complete_5min_candles(_, _)
complete_5min_candles(tl, symbols_to_complete) ==
    IF symbols_to_complete = <<>>
    THEN tl
    ELSE complete_5min_candles(
            completed_5min_candle(tl, Head(symbols_to_complete)),
            Tail(symbols_to_complete))

\* list(d.keys()) of an insertion-ordered dict of candles
KeyList(candles) == [i \in DOMAIN candles |-> candles[i].symbol]

\* check_minute_changes: the 1-minute change, then the 5-minute change
check_minute_changes(tl, current_time, outcomes) ==
    LET after1 ==
            IF tl.current_1min = NoTime
            THEN [tl EXCEPT !.current_1min = MinuteOf(current_time)]
            ELSE IF MinuteOf(current_time) > tl.current_1min
            THEN [complete_1min_candles(tl, KeyList(tl.current_1min_candles),
                                        outcomes)
                     EXCEPT !.current_1min = MinuteOf(current_time)]
            ELSE tl
    IN  IF after1.current_5min = NoTime
        THEN [after1 EXCEPT !.current_5min = FiveMinuteOf(current_time)]
        ELSE IF FiveMinuteOf(current_time) > after1.current_5min
        THEN [complete_5min_candles(after1, KeyList(after1.current_5min_candles))
                 EXCEPT !.current_5min = FiveMinuteOf(current_time)]
        ELSE after1

\* initialize or update the symbol's candle in one of the two dicts
fed(candles, tick, current_time, candle_type) ==
    IF tick.symbol \notin Keys(candles)
    THEN Set(candles, initialize_candle(tick.symbol, tick.last_price,
                                        current_time, candle_type))
    ELSE Set(candles, update_candle(Get(candles, tick.symbol), tick.last_price,
                                    tick.volume_traded, current_time))

\* the body of the for loop of on_ticks for one tick
trader_tick(tl, tick, current_time) ==
    IF tick.symbol \notin Symbols
    THEN tl
    ELSE [tl EXCEPT !.current_1min_candles = fed(@, tick, current_time, "1min"),
                    !.current_5min_candles =
                        IF (current_time % 86400) <= FIVE_MIN_END
                        THEN fed(@, tick, current_time, "5min")
                        ELSE @]

RECURSIVE trader_ticks(_, _, _)
trader_ticks(tl, ticks, current_time) ==
    IF ticks = <<>>
    THEN tl
    ELSE trader_ticks(trader_tick(tl, Head(ticks), current_time),
                      Tail(ticks), current_time)

\* ------------------------------------------------------------------- Init
NoMinute == 0 - 2

\* what is observed of a handler: its name, the symbol it was called for,
\* the branch it took, the broker requests it made while liquidating and
\* the positions the broker reported to it
Observed(op, symbol, path, calls, report) ==
    [op |-> op, symbol |-> symbol, path |-> path, calls |-> calls, report |-> report]

\* the state after construction of the program that was started
Start(programs) ==
    /\ program \in programs
    /\ trading_active = TRUE
    /\ available_capital = INITIAL_CAPITAL
    /\ positions_taken = <<>>
    /\ quantity_map = EmptyMap
    /\ breakout_candles = EmptyMap
    /\ breakout_candle_formed = FALSE
    /\ \E b \in (IF program = "live" THEN InitialBooks ELSE {CleanBook}) :
          /\ broker_orders = b.orders
          /\ broker_positions = b.net
    /\ TRADING_ACTIVE = TRUE
    /\ AVAILABLE_CAPITAL = INITIAL_CAPITAL
    /\ POSITIONS_TAKEN = <<>>
    /\ QUANTITY_MAP = EmptyMap
    /\ CANDLE_MAP = EmptyMap
    /\ TRADES_TAKEN = <<>>
    /\ candles_initialized = FALSE
    /\ simulated_time = 0
    /\ last_checked_minute = NoMinute
    /\ loop_pc = "head"
    /\ loop_index = 1
    /\ HISTORICAL_DATA_CACHE \in (IF program = "backtest" THEN Caches ELSE {NoCache})
    /\ clock = NoTime
    /\ ticks_seen = 0
    /\ window_ticks = {}
    /\ current_minute = NoTime
    /\ current_candles = EmptyMap
    /\ completed_candles = [s \in Symbols |-> <<>>]
    /\ current_1min = NoTime
    /\ current_5min = NoTime
    /\ current_1min_candles = EmptyMap
    /\ current_5min_candles = EmptyMap
    /\ completed_1min_candles = [s \in Symbols |-> <<>>]
    /\ candle_lock = 0
    /\ pc = [i \in Invocations |-> "idle"]
    /\ frame = [i \in Invocations |-> [now |-> 0 - 1, ticks |-> <<>>]]
    /\ last = Observed("init", "", "", <<>>, <<>>)

Init == Start({"live", "backtest"})

\* ---------------------------------------------------------------- actions
\* the three fields complete_5min_candle writes
Gate ==
    [breakout_candles |-> breakout_candles, quantity_map |-> quantity_map,
     breakout_candle_formed |-> breakout_candle_formed]

\* complete_5min_candle for a completed 5-minute candle. With the clock
\* moving forward the 09:15 bucket completes once per symbol; the candle of
\* a later bucket only leaves the open set.
complete_5min_candle(symbol, candle) ==
    /\ program = "live"
    /\ trading_active
    /\ candle.timestamp = BREAKOUT_START_TIME
          => symbol \notin DOMAIN breakout_candles
    /\ LET gate == IF IsBreakoutCandle(candle)
                   THEN set_breakout_candle(Gate, symbol, candle)
                   ELSE Gate
       IN  /\ breakout_candles' = gate.breakout_candles
           /\ quantity_map' = gate.quantity_map
           /\ breakout_candle_formed' = gate.breakout_candle_formed
    /\ last' = IF candle.timestamp = BREAKOUT_START_TIME
               THEN Observed("complete_5min_candle", symbol, "", <<>>, <<>>)
               ELSE last
    /\ UNCHANGED <<program, trading_active, available_capital, positions_taken,
                   broker_orders, broker_positions>>
    /\ UNCHANGED backtest_vars
    /\ UNCHANGED tick_vars

\* complete_1min_candle: hands the completed candle to check_breakout_entry
\* once every reference is formed
complete_1min_candle(symbol, candle, outcome) ==
    /\ program = "live"
    /\ trading_active
    /\ IF /\ breakout_candle_formed
          /\ symbol \in DOMAIN breakout_candles
          /\ symbol \in DOMAIN quantity_map
       THEN \E r \in {check_breakout_entry(Trader, symbol, candle,
                                            breakout_candles[symbol],
                                            quantity_map[symbol],
                                            outcome.entryOk, outcome.slOk)} :
                /\ available_capital' = r.capital
                /\ positions_taken' = r.positions
                /\ broker_orders' = r.book.orders
                /\ broker_positions' = r.book.net
                /\ last' = Observed("check_breakout_entry", symbol, r.path,
                                     <<>>, <<>>)
       ELSE /\ UNCHANGED <<available_capital, positions_taken, broker_orders,
                           broker_positions>>
            /\ last' = Observed("complete_1min_candle", symbol, "not_armed",
                                 <<>>, <<>>)
    /\ UNCHANGED <<program, trading_active, quantity_map, breakout_candles,
                   breakout_candle_formed>>
    /\ UNCHANGED backtest_vars
    /\ UNCHANGED tick_vars

\* symbols of the positions that hold a stop order id
WithStop(positions) ==
    {positions[i].symbol : i \in {j \in DOMAIN positions :
                                     "stop_loss_order_id" \in DOMAIN positions[j]}}

\* stop_trading_and_exit, called by on_ticks at STRATEGY_END while trading
\* is active: close_all_positions, then cancel_all_orders.  Which broker
\* calls raise is the environment's choice.
stop_trading_and_exit ==
    /\ program = "live"
    /\ trading_active
    /\ trading_active' = FALSE
    /\ \E slCancelFails \in SUBSET WithStop(positions_taken),
          closeFails \in SUBSET Keys(positions_taken), ordersOk \in BOOLEAN :
          LET closed == close_all_positions(
                            [orders |-> broker_orders, net |-> broker_positions],
                            positions_taken,
                            [s \in Symbols |-> s \notin slCancelFails],
                            [s \in Symbols |-> s \notin closeFails])
          IN  \E cancelFails \in
                    IF ordersOk THEN SUBSET OpenOrderIds(closed.book.orders)
                    ELSE {{}} :
                 LET done == cancel_all_orders(closed, ordersOk, cancelFails)
                 IN  /\ broker_orders' = done.book.orders
                     /\ broker_positions' = done.book.net
                     /\ last' = Observed("stop_trading_and_exit", "", "",
                                          done.calls, <<>>)
    /\ positions_taken' = <<>>
    /\ UNCHANGED <<program, available_capital, quantity_map, breakout_candles,
                   breakout_candle_formed>>
    /\ UNCHANGED backtest_vars
    /\ UNCHANGED tick_vars

\* the cached 1-minute bar of the evaluated bucket, or none; the decision
\* reads its close only
Bars == {[present |-> TRUE, close |-> c] : c \in BarPrices}
        \cup {[present |-> FALSE, close |-> 0]}

NoFetch == [s \in Symbols |-> [kind |-> "empty", high |-> 0, low |-> 0]]

\* the head of one iteration of the while loop of start_trading: candle
\* initialisation (an exception ends the iteration and the loop retries),
\* the end-time and exhausted-data exits through stop_trading_and_exit, and
\* the entry into check_breakouts_from_cached_data
start_trading_head ==
    /\ program = "backtest"
    /\ loop_pc = "head"
    /\ TRADING_ACTIVE
    /\ \E fetch \in (IF candles_initialized THEN {NoFetch} ELSE FetchRounds) :
          LET init == IF candles_initialized
                      THEN [candle_map |-> CANDLE_MAP, quantities |-> QUANTITY_MAP,
                            initialized |-> TRUE, error |-> "", symbol |-> ""]
                      ELSE initialize_candle_data(CANDLE_MAP, QUANTITY_MAP, fetch)
              previous_minute == previous_completed_minute(simulated_time)
          IN  /\ CANDLE_MAP' = init.candle_map
              /\ QUANTITY_MAP' = init.quantities
              /\ candles_initialized' = init.initialized
              /\ IF ~init.initialized
                 THEN /\ last' = Observed("initialize_candle_data", init.symbol,
                                           init.error, <<>>, <<>>)
                      /\ UNCHANGED <<TRADING_ACTIVE, POSITIONS_TAKEN, TRADES_TAKEN,
                                     last_checked_minute, loop_pc, loop_index>>
                 ELSE \E exhausted \in {is_cached_data_exhausted(
                                            HISTORICAL_DATA_CACHE, simulated_time)} :
                        IF simulated_time >= EndMinute \/ exhausted
                        THEN \E positionsOk \in BOOLEAN, report \in Reports :
                               LET closed == closeAllPositions(Ledger, positionsOk, report)
                               IN  /\ TRADING_ACTIVE' = FALSE
                                   /\ POSITIONS_TAKEN' = closed.positions
                                   /\ TRADES_TAKEN' = closed.trades
                                   /\ loop_pc' = "done"
                                   /\ last' = Observed("stop_trading_and_exit", "",
                                                IF simulated_time >= EndMinute
                                                THEN "ended" ELSE "exhausted",
                                                <<Call("positions", "closeAllPositions",
                                                       "", 0, "", 0, positionsOk)>>,
                                                IF positionsOk THEN report ELSE <<>>)
                                   /\ UNCHANGED <<last_checked_minute, loop_index>>
                        ELSE /\ last_checked_minute' = previous_minute
                             /\ loop_pc' = "check"
                             /\ loop_index' = IF last_checked_minute = previous_minute
                                              THEN Len(SYMBOLS) + 1 ELSE 1
                             /\ last' = Observed("start_trading", "", "checking",
                                                  <<>>, <<>>)
                             /\ UNCHANGED <<TRADING_ACTIVE, POSITIONS_TAKEN,
                                            TRADES_TAKEN>>
    /\ UNCHANGED <<AVAILABLE_CAPITAL, simulated_time, HISTORICAL_DATA_CACHE>>
    /\ UNCHANGED program
    /\ UNCHANGED live_vars
    /\ UNCHANGED tick_vars

\* one pass of the for loop of check_breakouts_from_cached_data
check_symbol(bar) ==
    /\ program = "backtest"
    /\ loop_pc = "check"
    /\ loop_index <= Len(SYMBOLS)
    /\ bar.present = (previous_completed_minute(simulated_time) \in HISTORICAL_DATA_CACHE[SYMBOLS[loop_index]])
    /\ LET symbol == SYMBOLS[loop_index]
       IN  IF AlreadyEntered(POSITIONS_TAKEN, symbol)
           THEN /\ last' = Observed("check_breakouts_from_cached_data", symbol,
                                     "continue", <<>>, <<>>)
                /\ UNCHANGED <<AVAILABLE_CAPITAL, POSITIONS_TAKEN, TRADES_TAKEN>>
           ELSE IF ~bar.present
           THEN /\ last' = Observed("check_breakouts_from_cached_data", symbol,
                                     "no_bar", <<>>, <<>>)
                /\ UNCHANGED <<AVAILABLE_CAPITAL, POSITIONS_TAKEN, TRADES_TAKEN>>
           ELSE LET r == check_breakout_for_symbol(Ledger, symbol, bar,
                                                   QUANTITY_MAP[symbol],
                                                   CANDLE_MAP[symbol])
                IN  /\ AVAILABLE_CAPITAL' = r.capital
                    /\ POSITIONS_TAKEN' = r.positions
                    /\ TRADES_TAKEN' = r.trades
                    /\ last' = Observed("check_breakout_for_symbol", symbol, r.path,
                                         <<>>, <<>>)
    /\ loop_index' = loop_index + 1
    /\ UNCHANGED <<TRADING_ACTIVE, QUANTITY_MAP, CANDLE_MAP, candles_initialized,
                   simulated_time, last_checked_minute, loop_pc,
                   HISTORICAL_DATA_CACHE>>
    /\ UNCHANGED program
    /\ UNCHANGED live_vars
    /\ UNCHANGED tick_vars

\* the end of the iteration: the simulated clock advances by one minute
advance_time ==
    /\ program = "backtest"
    /\ loop_pc = "check"
    /\ loop_index > Len(SYMBOLS)
    /\ simulated_time' = simulated_time + 1
    /\ loop_pc' = "head"
    /\ last' = Observed("start_trading", "", "advanced", <<>>, <<>>)
    /\ UNCHANGED <<TRADING_ACTIVE, AVAILABLE_CAPITAL, POSITIONS_TAKEN, QUANTITY_MAP,
                   CANDLE_MAP, TRADES_TAKEN, candles_initialized,
                   last_checked_minute, loop_index, HISTORICAL_DATA_CACHE>>
    /\ UNCHANGED program
    /\ UNCHANGED live_vars
    /\ UNCHANGED tick_vars

vars == <<program, trading_active, available_capital, positions_taken,
          quantity_map, breakout_candles, breakout_candle_formed,
          broker_orders, broker_positions,
          TRADING_ACTIVE, AVAILABLE_CAPITAL, POSITIONS_TAKEN, QUANTITY_MAP,
          CANDLE_MAP, TRADES_TAKEN, candles_initialized, simulated_time,
          last_checked_minute, loop_pc, loop_index, HISTORICAL_DATA_CACHE,
          clock, ticks_seen, window_ticks,
          current_minute, current_candles, completed_candles, current_1min,
          current_5min, current_1min_candles, current_5min_candles,
          completed_1min_candles, candle_lock, pc, frame, last>>

Next ==
    \/ \E s \in Symbols, c \in RefCandles \cup LaterCandles :
          complete_5min_candle(s, c)
    \/ \E s \in Symbols, c \in Candles, outcome \in EntryOutcomes :
          complete_1min_candle(s, c, outcome)
    \/ stop_trading_and_exit
    \/ start_trading_head
    \/ \E bar \in Bars : check_symbol(bar)
    \/ advance_time

Spec == Init /\ [][Next]_vars

\* --------------------------------- the live program with wide references
SizingInit == Start({"live"})

SizingNext ==
    \/ \E s \in Symbols, c \in WideRefCandles \cup LaterCandles :
          complete_5min_candle(s, c)
    \/ \E s \in Symbols, c \in Candles, outcome \in EntryOutcomes :
          complete_1min_candle(s, c, outcome)
    \/ stop_trading_and_exit

SizingSpec == SizingInit /\ [][SizingNext]_vars

\* ------------------------- the two engines fed the same completed bars
\* the reference candles of a replay: every symbol has one, of non-zero range
ReplayReferences ==
    {fetch \in FetchRounds :
        \A s \in Symbols : fetch[s].kind = "candle" /\ fetch[s].high > fetch[s].low}

\* a completed 1-minute bar: the live engine reads high, low and close, the
\* backtest reads close
ReplayBars ==
    {c \in [high : BarPrices, low : BarPrices, close : BarPrices] :
        c.low <= c.close /\ c.close <= c.high}

\* complete_5min_candle for the 09:15 candle of SYMBOLS[i], SYMBOLS[i+1], ...
RECURSIVE set_breakout_candles(_, _, _)
set_breakout_candles(gate, i, fetch) ==
    IF i > Len(SYMBOLS)
    THEN gate
    ELSE set_breakout_candles(
            set_breakout_candle(gate, SYMBOLS[i],
                                [high |-> fetch[SYMBOLS[i]].high,
                                 low |-> fetch[SYMBOLS[i]].low,
                                 timestamp |-> BREAKOUT_START_TIME]),
            i + 1, fetch)

\* both engines receive the same reference candles: the live one through
\* complete_5min_candle, the backtest through initialize_candle_data
replay_reference(fetch) ==
    /\ program = "replay"
    /\ ~breakout_candle_formed
    /\ ~candles_initialized
    /\ LET gate == set_breakout_candles(Gate, 1, fetch)
           init == initialize_candle_data(CANDLE_MAP, QUANTITY_MAP, fetch)
       IN  /\ breakout_candles' = gate.breakout_candles
           /\ quantity_map' = gate.quantity_map
           /\ breakout_candle_formed' = gate.breakout_candle_formed
           /\ CANDLE_MAP' = init.candle_map
           /\ QUANTITY_MAP' = init.quantities
           /\ candles_initialized' = init.initialized
    /\ last' = Observed("replay_reference", "", "", <<>>, <<>>)
    /\ UNCHANGED <<program, trading_active, available_capital, positions_taken,
                   broker_orders, broker_positions>>
    /\ UNCHANGED <<TRADING_ACTIVE, AVAILABLE_CAPITAL, POSITIONS_TAKEN, TRADES_TAKEN,
                   simulated_time, last_checked_minute, loop_pc, loop_index,
                   HISTORICAL_DATA_CACHE>>
    /\ UNCHANGED tick_vars

\* both engines receive the same completed 1-minute bar of a symbol: the
\* live one decides in check_breakout_entry (the broker accepts the orders),
\* the backtest in check_breakout_for_symbol
replay_bar(symbol, bar) ==
    /\ program = "replay"
    /\ breakout_candle_formed
    /\ candles_initialized
    /\ LET r == check_breakout_entry(Trader, symbol, bar, breakout_candles[symbol],
                                     quantity_map[symbol], TRUE, TRUE)
           b == check_breakout_for_symbol(Ledger, symbol, bar, QUANTITY_MAP[symbol],
                                          CANDLE_MAP[symbol])
       IN  /\ available_capital' = r.capital
           /\ positions_taken' = r.positions
           /\ broker_orders' = r.book.orders
           /\ broker_positions' = r.book.net
           /\ AVAILABLE_CAPITAL' = b.capital
           /\ POSITIONS_TAKEN' = b.positions
           /\ TRADES_TAKEN' = b.trades
           /\ last' = Observed("replay_bar", symbol, r.path, <<>>, <<>>)
    /\ UNCHANGED <<program, trading_active, quantity_map, breakout_candles,
                   breakout_candle_formed>>
    /\ UNCHANGED <<TRADING_ACTIVE, QUANTITY_MAP, CANDLE_MAP, candles_initialized,
                   simulated_time, last_checked_minute, loop_pc, loop_index,
                   HISTORICAL_DATA_CACHE>>
    /\ UNCHANGED tick_vars

ReplayInit == Start({"replay"})

ReplayNext ==
    \/ \E fetch \in ReplayReferences : replay_reference(fetch)
    \/ \E s \in Symbols, bar \in ReplayBars : replay_bar(s, bar)

ReplaySpec == ReplayInit /\ [][ReplayNext]_vars

\* ------------------------------------------------ the tick-driven programs
\* CandleBuilder.on_ticks: one callback of the websocket thread, under
\* candle_lock.  The clock readings of successive callbacks do not decrease.
CandleBuilder_on_ticks(now, ticks) ==
    /\ program = "builder"
    /\ now >= clock
    /\ ticks_seen + Len(Tracked(ticks)) <= MaxTicks
    /\ LET checked == check_minute_change(Builder, now)
           cb == builder_ticks(checked, ticks, now)
       IN  /\ current_minute' = cb.current_minute
           /\ current_candles' = cb.current_candles
           /\ completed_candles' = cb.completed_candles
           /\ last' = Observed("on_ticks", "",
                                IF checked.completed_candles # completed_candles
                                THEN "completed" ELSE "", <<>>, <<>>)
    /\ clock' = now
    /\ ticks_seen' = ticks_seen + Len(Tracked(ticks))
    /\ UNCHANGED <<window_ticks, current_1min, current_5min,
                   current_1min_candles, current_5min_candles,
                   completed_1min_candles, candle_lock, pc, frame>>
    /\ UNCHANGED program
    /\ UNCHANGED live_vars
    /\ UNCHANGED backtest_vars

\* the instants at which a callback of the trader reads the clock: 09:19:30,
\* 09:20:00, 09:20:30, 09:21:10, 09:25:10, 10:00:30, 15:00:00, 15:15:30
TraderInstants == {33570, 33600, 33630, 33670, 33910, 36030, 54000, 54930}

\* the reference window of the trader: BREAKOUT_START_TIME up to MARKET_START
InReferenceWindow(now) == BREAKOUT_START_TIME <= now % 86400 /\ now % 86400 < MARKET_START

\* the symbols a batch carries a tracked tick for
SymbolsOf(ticks) == {Tracked(ticks)[i].symbol : i \in DOMAIN Tracked(ticks)}

\* a reading of the clock that on_ticks takes for market hours at any time
outside_market_hours_Never(now) == FALSE

\* the market-hours test of on_ticks: before MARKET_START or after MARKET_END
outside_market_hours(now) == (now % 86400) < MARKET_START \/ (now % 86400) > MARKET_END

\* the strategy-end test of on_ticks
at_strategy_end(now) == (now % 86400) >= STRATEGY_END

\* stop_trading_and_exit as on_ticks calls it at STRATEGY_END: the flag, the
\* closing of the positions, the cancelling of the orders
stop_trading_and_exit_from_on_ticks ==
    /\ trading_active' = FALSE
    /\ \E slCancelFails \in SUBSET WithStop(positions_taken),
          closeFails \in SUBSET Keys(positions_taken),
          ordersOk \in BOOLEAN :
          LET closed == close_all_positions(
                            [orders |-> broker_orders, net |-> broker_positions],
                            positions_taken,
                            [s \in Symbols |-> s \notin slCancelFails],
                            [s \in Symbols |-> s \notin closeFails])
          IN  \E cancelFails \in
                    IF ordersOk THEN SUBSET OpenOrderIds(closed.book.orders)
                    ELSE {{}} :
                 LET done == cancel_all_orders(closed, ordersOk, cancelFails)
                 IN  /\ broker_orders' = done.book.orders
                     /\ broker_positions' = done.book.net
                     /\ last' = Observed("on_ticks", "", "strategy_end",
                                          done.calls, <<>>)
    /\ positions_taken' = <<>>

\* LiveCandleTrader.on_ticks: the early returns on the trading flag and the
\* market hours, the liquidation at STRATEGY_END, and otherwise, under the
\* lock, check_minute_changes followed by the loop over the batch.
LiveCandleTrader_on_ticks(now, ticks) ==
    /\ program = "trader"
    /\ now >= clock
    /\ ticks_seen + Len(Tracked(ticks)) <= MaxTicks
    /\ clock' = now
    /\ ticks_seen' = ticks_seen + Len(Tracked(ticks))
    /\ window_ticks' = IF InReferenceWindow(now)
                       THEN window_ticks \cup SymbolsOf(ticks)
                       ELSE window_ticks
    /\ IF ~trading_active
       THEN /\ last' = Observed("on_ticks", "", "inactive", <<>>, <<>>)
            /\ UNCHANGED <<trading_active, available_capital, positions_taken,
                           quantity_map, breakout_candles, breakout_candle_formed,
                           broker_orders, broker_positions, current_1min,
                           current_5min, current_1min_candles,
                           current_5min_candles, completed_1min_candles>>
       ELSE IF outside_market_hours(now)
       THEN /\ last' = Observed("on_ticks", "", "closed", <<>>, <<>>)
            /\ UNCHANGED <<trading_active, available_capital, positions_taken,
                           quantity_map, breakout_candles, breakout_candle_formed,
                           broker_orders, broker_positions, current_1min,
                           current_5min, current_1min_candles,
                           current_5min_candles, completed_1min_candles>>
       ELSE IF at_strategy_end(now)
       THEN /\ stop_trading_and_exit_from_on_ticks
            /\ UNCHANGED <<available_capital, quantity_map, breakout_candles,
                           breakout_candle_formed, current_1min, current_5min,
                           current_1min_candles, current_5min_candles,
                           completed_1min_candles>>
       ELSE \E outcomes \in (IF breakout_candle_formed
                             THEN [Symbols -> EntryOutcomes]
                             ELSE {[s \in Symbols |->
                                       [entryOk |-> TRUE, slOk |-> TRUE]]}) :
               \E checked \in {check_minute_changes(TickTrader, now, outcomes)} :
               \E tl \in {trader_ticks(checked, ticks, now)} :
                   /\ current_1min' = tl.current_1min
                   /\ current_5min' = tl.current_5min
                   /\ current_1min_candles' = tl.current_1min_candles
                   /\ current_5min_candles' = tl.current_5min_candles
                   /\ completed_1min_candles' = tl.completed_1min_candles
                   /\ breakout_candles' = tl.breakout_candles
                   /\ quantity_map' = tl.quantity_map
                   /\ breakout_candle_formed' = tl.breakout_candle_formed
                   /\ available_capital' = tl.capital
                   /\ positions_taken' = tl.positions
                   /\ broker_orders' = tl.book.orders
                   /\ broker_positions' = tl.book.net
                   /\ last' = Observed("on_ticks", "",
                                        IF checked.completed_1min_candles
                                              # completed_1min_candles
                                        THEN "completed" ELSE "", <<>>, <<>>)
                   /\ UNCHANGED trading_active
    /\ UNCHANGED <<current_minute, current_candles, completed_candles,
                   candle_lock, pc, frame>>
    /\ UNCHANGED program
    /\ UNCHANGED backtest_vars

TickInit == Start({"builder", "trader"})

TickNext ==
    \/ \E now \in BuilderInstants : \E ticks \in Batches(now) :
          CandleBuilder_on_ticks(now, ticks)
    \/ \E now \in TraderInstants : \E ticks \in Batches(now) :
          LiveCandleTrader_on_ticks(now, ticks)

TickSpec == TickInit /\ [][TickNext]_vars


\* ------------------------------------------------------------------ claims
\* entry orders the broker accepted for a symbol (live), and ENTRY records
\* written for it (backtest)
EntryOrders(symbol) ==
    Cardinality({i \in DOMAIN broker_orders :
                    /\ broker_orders[i].placed_by = "entry"
                    /\ broker_orders[i].tradingsymbol = symbol})

EntryTrades(symbol) ==
    Cardinality({i \in DOMAIN TRADES_TAKEN :
                    /\ TRADES_TAKEN[i].trade_type = "ENTRY"
                    /\ TRADES_TAKEN[i].symbol = symbol})

\* the step evaluated a completed candle (live) or a cached bar (backtest)
IsEvaluation(obs) ==
    obs.op \in {"check_breakout_entry", "check_breakout_for_symbol",
                "check_breakouts_from_cached_data"}

\* C1: single entry.  No symbol ever has more than one entry order (live)
\* or ENTRY record (backtest), and a candle evaluated for a symbol that is
\* already in the positions map places no order, records no trade and
\* changes neither the capital nor the positions.
C1_SingleEntry ==
    /\ [](\A s \in Symbols : EntryOrders(s) <= 1 /\ EntryTrades(s) <= 1)
    /\ [][(/\ IsEvaluation(last')
           /\ last'.symbol \in Keys(positions_taken) \cup Keys(POSITIONS_TAKEN))
          => UNCHANGED <<available_capital, positions_taken, broker_orders,
                         broker_positions, AVAILABLE_CAPITAL, POSITIONS_TAKEN,
                         TRADES_TAKEN>>]_vars

\* a candle was evaluated for a symbol whose entry order the broker holds
C1_Witness ==
    /\ last.op = "check_breakout_entry"
    /\ last.path = "in_position"
    /\ EntryOrders(last.symbol) = 1

\* C2: the capital ledger is never negative, in the live trader and in the
\* backtest.
C2_CapitalNonNegative == available_capital >= 0 /\ AVAILABLE_CAPITAL >= 0

\* capital was deployed and a later signal was rejected for lack of it
C2_Witness ==
    /\ last.op = "check_breakout_entry"
    /\ last.path = "skip"
    /\ available_capital < INITIAL_CAPITAL

\* what an entry decision of the live trader may write
LiveFrame == <<available_capital, positions_taken, broker_orders, broker_positions>>

\* what an entry decision of the backtest may write
BacktestFrame == <<AVAILABLE_CAPITAL, POSITIONS_TAKEN, TRADES_TAKEN>>

\* the live symbol is Armed: every reference is formed, the symbol is sized
\* and it has no position
Armed(symbol) ==
    /\ breakout_candle_formed
    /\ symbol \in DOMAIN breakout_candles
    /\ symbol \in DOMAIN quantity_map
    /\ symbol \notin Keys(positions_taken)

\* the live candle breaches the reference range
Breaches(candle, reference) ==
    candle.high > reference.high \/ candle.low < reference.low

\* the live symbol is still eligible: the session takes candles, and every
\* candle that breaches the range with enough capital enters when the broker
\* accepts the entry order
LiveEligible(symbol) ==
    /\ trading_active
    /\ Armed(symbol)
    /\ \A c \in Candles, slOk \in BOOLEAN :
          (/\ Breaches(c, breakout_candles[symbol])
           /\ quantity_map[symbol] * c.close <= available_capital)
          => symbol \in Keys(check_breakout_entry(Trader, symbol, c,
                                 breakout_candles[symbol], quantity_map[symbol],
                                 TRUE, slOk).positions)

\* the same for the backtest, whose bars are read by their close
BacktestEligible(symbol) ==
    /\ TRADING_ACTIVE
    /\ candles_initialized
    /\ symbol \notin Keys(POSITIONS_TAKEN)
    /\ \A bar \in Bars :
          (/\ bar.present
           /\ \/ bar.close > CANDLE_MAP[symbol].high
              \/ bar.close < CANDLE_MAP[symbol].low
           /\ QUANTITY_MAP[symbol] * bar.close <= AVAILABLE_CAPITAL)
          => symbol \in Keys(check_breakout_for_symbol(Ledger, symbol, bar,
                                 QUANTITY_MAP[symbol], CANDLE_MAP[symbol]).positions)

\* C3: a signal rejected for insufficient capital (quantity * close above
\* the available capital) leaves the capital, the positions and the orders
\* (in the backtest: the trade ledger) unchanged, whatever the candle; and
\* the symbol stays Armed: after the rejection every candle that breaches
\* the range with sufficient capital still produces an entry.
C3_RejectedSignalStaysArmed ==
    /\ [][(IsEvaluation(last') /\ last'.path = "skip")
          => UNCHANGED <<LiveFrame, BacktestFrame, quantity_map, breakout_candles,
                         breakout_candle_formed, QUANTITY_MAP, CANDLE_MAP>>]_vars
    /\ [](\A s \in Symbols, c \in Candles, o \in EntryOutcomes :
             (Armed(s) /\ quantity_map[s] * c.close > available_capital)
             => LET r == check_breakout_entry(Trader, s, c, breakout_candles[s],
                                              quantity_map[s], o.entryOk, o.slOk)
                IN  /\ r.capital = available_capital
                    /\ r.positions = positions_taken
                    /\ r.book = Trader.book)
    /\ [](last.path = "skip"
          => IF last.op = "check_breakout_entry"
             THEN LiveEligible(last.symbol)
             ELSE BacktestEligible(last.symbol))

\* a signal was rejected while a breaching candle the capital can pay for exists
C3_Witness ==
    /\ last.op = "check_breakout_entry"
    /\ last.path = "skip"
    /\ \E c \in Candles :
          /\ Breaches(c, breakout_candles[last.symbol])
          /\ quantity_map[last.symbol] * c.close <= available_capital

\* C4: when the market entry order raises, the capital is not decremented,
\* no position is recorded, no stop order (no order at all) reaches the
\* broker, the session stays active, and the symbol remains eligible: the
\* next breaching candle with sufficient capital enters.
C4_EntryFailureRolledBack ==
    /\ [][(/\ last'.op = "check_breakout_entry"
           /\ last'.path \in {"buy_failed", "sell_failed"})
          => UNCHANGED <<LiveFrame, trading_active, quantity_map, breakout_candles,
                         breakout_candle_formed>>]_vars
    /\ [](\A s \in Symbols, c \in Candles, slOk \in BOOLEAN :
             Armed(s)
             => LET r == check_breakout_entry(Trader, s, c, breakout_candles[s],
                                              quantity_map[s], FALSE, slOk)
                IN  /\ r.capital = available_capital
                    /\ r.positions = positions_taken
                    /\ r.book = Trader.book)
    /\ [](last.path \in {"buy_failed", "sell_failed"} => LiveEligible(last.symbol))

\* an entry order raised after the other symbol had entered
C4_Witness ==
    /\ last.op = "check_breakout_entry"
    /\ last.path \in {"buy_failed", "sell_failed"}
    /\ Len(positions_taken) = 1
    /\ available_capital < INITIAL_CAPITAL

\* C5: when the entry order succeeds and the stop order raises, the position
\* is recorded with symbol, direction, quantity and price (the candle's
\* close) and without stop_loss_order_id, the capital is decremented once by
\* quantity * price, only the entry order reaches the broker, and the
\* session stays active (no exception leaves check_breakout_entry).
C5_StopFailureKeepsPosition ==
    /\ [][(/\ last'.op = "check_breakout_entry"
           /\ Len(broker_orders') = Len(broker_orders) + 1)
          => /\ Len(positions_taken') = Len(positions_taken) + 1
             /\ LET entry == broker_orders'[Len(broker_orders')]
                    position == positions_taken'[Len(positions_taken')]
                IN  /\ entry.placed_by = "entry"
                    /\ positions_taken' = Append(positions_taken, position)
                    /\ DOMAIN position = {"symbol", "direction", "quantity", "price"}
                    /\ position.symbol = last'.symbol
                    /\ position.direction = entry.transaction_type
                    /\ position.quantity = entry.quantity
                    /\ position.quantity = quantity_map[last'.symbol]
                    /\ available_capital' =
                          available_capital - position.quantity * position.price
             /\ trading_active']_vars
    /\ [](\A s \in Symbols, c \in Candles :
             (/\ Armed(s)
              /\ Breaches(c, breakout_candles[s])
              /\ quantity_map[s] * c.close <= available_capital)
             => LET r == check_breakout_entry(Trader, s, c, breakout_candles[s],
                                              quantity_map[s], TRUE, FALSE)
                IN  /\ r.positions =
                          Append(positions_taken,
                                 [symbol |-> s,
                                  direction |-> IF c.high > breakout_candles[s].high
                                                THEN "BUY" ELSE "SELL",
                                  quantity |-> quantity_map[s],
                                  price |-> c.close])
                    /\ r.capital = available_capital - quantity_map[s] * c.close
                    /\ Len(r.book.orders) = Len(broker_orders) + 1)

\* an entry was taken whose position holds no stop order id
C5_Witness ==
    /\ last.op = "check_breakout_entry"
    /\ last.path \in {"buy", "sell"}
    /\ \E i \in DOMAIN positions_taken :
          /\ positions_taken[i].symbol = last.symbol
          /\ "stop_loss_order_id" \notin DOMAIN positions_taken[i]
    /\ available_capital < INITIAL_CAPITAL

\* C6: every stop order the broker holds directly follows the accepted entry
\* order of its symbol, has the entry's quantity and the opposite
\* transaction type, and its trigger is the low of the reference candle for
\* a BUY entry and the high for a SELL entry.
C6_StopOppositeExtreme ==
    \A i \in DOMAIN broker_orders :
        broker_orders[i].placed_by = "stop"
        => /\ i > 1
           /\ LET stop == broker_orders[i]
                  entry == broker_orders[i - 1]
                  reference == breakout_candles[stop.tradingsymbol]
              IN  /\ entry.placed_by = "entry"
                  /\ entry.status = "COMPLETE"
                  /\ entry.tradingsymbol = stop.tradingsymbol
                  /\ stop.quantity = entry.quantity
                  /\ stop.order_type = "SL"
                  /\ \/ /\ entry.transaction_type = "BUY"
                        /\ stop.transaction_type = "SELL"
                        /\ stop.trigger_price = reference.low
                     \/ /\ entry.transaction_type = "SELL"
                        /\ stop.transaction_type = "BUY"
                        /\ stop.trigger_price = reference.high

\* the broker holds the stop of a long entry and the stop of a short entry,
\* for references whose extremes differ
C6_Witness ==
    \E i, j \in DOMAIN broker_orders :
        /\ broker_orders[i].placed_by = "stop"
        /\ broker_orders[j].placed_by = "stop"
        /\ broker_orders[i].transaction_type = "SELL"
        /\ broker_orders[j].transaction_type = "BUY"
        /\ \A s \in Symbols : breakout_candles[s].high > breakout_candles[s].low

\* the step is the liquidation of the live trader
LiveLiquidation(obs) == program = "live" /\ obs.op = "stop_trading_and_exit"

\* the step is the liquidation of the backtest
BacktestLiquidation(obs) == program = "backtest" /\ obs.op = "stop_trading_and_exit"

\* C7: when the live stop_trading_and_exit runs, a closing market order is
\* issued for every tracked symbol whose broker-reported net position is not
\* zero: a SELL for a long position, a BUY for a short one.
C7_ClosesBrokerReportedPositions ==
    [][LiveLiquidation(last')
       => \A s \in Symbols :
             broker_positions[s] # 0
             => \E i \in DOMAIN last'.calls :
                   /\ last'.calls[i].call = "place_order"
                   /\ last'.calls[i].symbol = s
                   /\ last'.calls[i].transaction_type =
                         IF broker_positions[s] > 0 THEN "SELL" ELSE "BUY"]_vars

\* C8: when the broker answers kite.positions(), the backtest's
\* closeAllPositions appends to the trade ledger one EXIT record for each
\* reported position with product MIS, non-zero quantity and a tracked
\* symbol, in report order and for no other position, whatever the local
\* POSITIONS_TAKEN holds; the record's action is SELL for a reported
\* quantity above zero and BUY below, its quantity the absolute value.
C8_ExitRecordsMatchBrokerReport ==
    [][(BacktestLiquidation(last') /\ last'.calls[1].ok)
       => LET closable(p) == /\ p.product = "MIS"
                             /\ p.quantity # 0
                             /\ p.tradingsymbol \in Symbols
              closed == SelectSeq(last'.report, closable)
          IN  /\ Len(TRADES_TAKEN') = Len(TRADES_TAKEN) + Len(closed)
              /\ SubSeq(TRADES_TAKEN', 1, Len(TRADES_TAKEN)) = TRADES_TAKEN
              /\ \A i \in DOMAIN closed :
                    LET exit == TRADES_TAKEN'[Len(TRADES_TAKEN) + i]
                    IN  /\ exit.trade_type = "EXIT"
                        /\ exit.symbol = closed[i].tradingsymbol
                        /\ exit.action = IF closed[i].quantity > 0
                                         THEN "SELL" ELSE "BUY"
                        /\ exit.quantity = IF closed[i].quantity < 0
                                           THEN 0 - closed[i].quantity
                                           ELSE closed[i].quantity]_vars

\* the broker reported positions of A, of B, of an untracked symbol and of
\* another product while the session itself had entered B only
C8_Witness ==
    /\ BacktestLiquidation(last)
    /\ Len(last.report) = 4
    /\ EntryTrades("A") = 0
    /\ EntryTrades("B") = 1
    /\ Len(TRADES_TAKEN) = 3

\* C9: when the broker answers kite.orders(), the live cancel_all_orders
\* asks to cancel every order that is open or trigger-pending and belongs
\* to the session (product MIS, tracked symbol), and asks to cancel no
\* order outside that product and symbol universe.
C9_CancelsExactlySessionOrders ==
    [][LiveLiquidation(last')
       => \A id \in DOMAIN broker_orders' :
             LET order == broker_orders'[id]
                 session == order.product = "MIS" /\ order.tradingsymbol \in Symbols
                 asked == \E i \in DOMAIN last'.calls :
                             /\ last'.calls[i].call = "cancel_order"
                             /\ last'.calls[i].by = "cancel_all_orders"
                             /\ last'.calls[i].order_id = id
                 answered == \E i \in DOMAIN last'.calls :
                                /\ last'.calls[i].call = "orders"
                                /\ last'.calls[i].ok
             IN  /\ (/\ answered
                     /\ session
                     /\ order.status \in {"OPEN", "TRIGGER_PENDING"}) => asked
                 /\ asked => session]_vars

\* C10: in the live liquidation a closing order is attempted for every
\* position of the local map, whichever stop cancellations and closing
\* orders fail, and cancel_all_orders runs after the last of them.
C10_LiquidationFailuresIsolated ==
    [][LiveLiquidation(last')
       => LET calls == last'.calls
          IN  /\ \A p \in DOMAIN positions_taken :
                    \E i \in DOMAIN calls :
                       /\ calls[i].call = "place_order"
                       /\ calls[i].by = "close_all_positions"
                       /\ calls[i].symbol = positions_taken[p].symbol
                       /\ calls[i].quantity = positions_taken[p].quantity
                       /\ calls[i].transaction_type # positions_taken[p].direction
              /\ \E j \in DOMAIN calls :
                    /\ calls[j].call = "orders"
                    /\ calls[j].by = "cancel_all_orders"
                    /\ \A i \in DOMAIN calls :
                          calls[i].by = "close_all_positions" => i < j]_vars

\* a stop cancellation and a closing order failed for the first position,
\* and the second position was closed and the orders were fetched after it
C10_Witness ==
    /\ LiveLiquidation(last)
    /\ \E i, j, k, l \in DOMAIN last.calls :
          /\ i < j /\ j < k /\ k < l
          /\ last.calls[i].call = "cancel_order" /\ ~last.calls[i].ok
          /\ last.calls[j].call = "place_order" /\ ~last.calls[j].ok
          /\ last.calls[k].call = "place_order" /\ last.calls[k].ok
          /\ last.calls[k].symbol # last.calls[j].symbol
          /\ last.calls[l].call = "orders"

\* ------------------------------------------------------ candles from ticks
Range(seq) == {seq[i] : i \in DOMAIN seq}

\* every candle the running program holds: open ones and completed ones
OpenCandles ==
    {current_candles[s] : s \in DOMAIN current_candles}
    \cup Range(current_1min_candles) \cup Range(current_5min_candles)

CompletedCandles ==
    UNION {Range(completed_candles[s]) : s \in Symbols}
    \cup UNION {Range(completed_1min_candles[s]) : s \in Symbols}
    \cup (IF program = "trader"
          THEN {breakout_candles[s] : s \in DOMAIN breakout_candles}
          ELSE {})

\* C11: every candle of CandleBuilder and of LiveCandleTrader, open or
\* completed, has low <= open <= high and low <= close <= high.
C11_OHLC ==
    \A c \in OpenCandles \cup CompletedCandles :
        /\ c.low <= c.open /\ c.open <= c.high
        /\ c.low <= c.close /\ c.close <= c.high

\* a completed candle that moved to both sides of its open
C11_Witness ==
    \E c \in CompletedCandles :
        /\ c.low < c.open /\ c.open < c.high
        /\ c.close # c.open

\* the completed candles of CandleBuilder
BuilderHistory == UNION {Range(completed_candles[s]) : s \in Symbols}

\* the ticks of the candle were all delivered within the candle's minute
Timely(candle) ==
    \A i \in DOMAIN Ingested(candle) : Ingested(candle)[i].minute = candle.timestamp

\* C12: a completed candle of CandleBuilder counts in tick_count every tick
\* ingested for its symbol into its bucket, the opening tick included.
C12_TickCountCountsEveryTick ==
    \A c \in BuilderHistory :
        Timely(c) => c.tick_count = Len(Ingested(c))

\* the prices p1..pn of the ticks a candle was built from, in arrival order
PricesOf(candle) ==
    [i \in DOMAIN Ingested(candle) |-> Ingested(candle)[i].last_price]

MaxOf(prices) == CHOOSE p \in Range(prices) : \A q \in Range(prices) : q <= p
MinOf(prices) == CHOOSE p \in Range(prices) : \A q \in Range(prices) : p <= q

Summarises(candle) ==
    LET ps == PricesOf(candle)
    IN  /\ Len(ps) >= 1
        /\ candle.open = ps[1]
        /\ candle.close = ps[Len(ps)]
        /\ candle.high = MaxOf(ps)
        /\ candle.low = MinOf(ps)

\* the symbol's open candle is the same candle before and after the step
SameOpenCandle(s) ==
    /\ s \in DOMAIN current_candles
    /\ s \in DOMAIN current_candles'
    /\ current_candles'[s].timestamp = current_candles[s].timestamp

\* C13: a candle of CandleBuilder built from the ticks p1..pn has open = p1,
\* close = pn, high = max(p1..pn) and low = min(p1..pn), while it is open and
\* once completed, and the open of a candle never changes after its creation.
C13_OpenCloseHighLow ==
    /\ [](\A c \in BuilderHistory \cup {current_candles[s] : s \in DOMAIN current_candles} :
             Summarises(c))
    /\ [][\A s \in Symbols :
             SameOpenCandle(s) => current_candles'[s].open = current_candles[s].open]_vars

\* a completed candle of three ticks whose high and low both left the open
C13_Witness ==
    \E c \in BuilderHistory :
        /\ Len(Ingested(c)) = 3
        /\ c.low < c.open /\ c.open < c.high

\* the tick was traded in a minute strictly before the bucket of the symbol's
\* open candle, or before the tracked minute when the symbol has none
Stale(s, tick) ==
    IF s \in DOMAIN current_candles
    THEN tick.minute < current_candles[s].timestamp
    ELSE current_minute # NoTime /\ tick.minute < current_minute

\* the ticks the step applied to the symbol's open candle
Applied(s) ==
    IF s \notin DOMAIN current_candles'
    THEN {}
    ELSE LET new == Ingested(current_candles'[s])
             old == IF SameOpenCandle(s) THEN Len(Ingested(current_candles[s])) ELSE 0
         IN  {new[i] : i \in (old + 1)..Len(new)}

\* C14: CandleBuilder.on_ticks drops a stale tick: a tick traded in a minute
\* strictly before the open candle's bucket (or before the tracked minute
\* when no candle is open) is applied to no candle and opens none.
C14_StaleTicksDropped ==
    [][\A s \in Symbols : \A t \in Applied(s) : ~Stale(s, t)]_vars

\* the callback of this step ran check_minute_change(s) and the tick loop
Ingesting ==
    /\ last'.op = "on_ticks"
    /\ last'.path \notin {"inactive", "closed", "strategy_end"}

\* the candle was appended to the history as it stood before the callback
AppendedUnchanged(history, after, candle) == after = Append(history, candle)

BuilderCompletesFirst ==
    (/\ program = "builder" /\ Ingesting
     /\ current_minute # NoTime /\ MinuteOf(clock') > current_minute)
    => /\ \A s \in DOMAIN current_candles :
             AppendedUnchanged(completed_candles[s], completed_candles'[s],
                               current_candles[s])
       /\ \A s \in DOMAIN current_candles' :
             current_candles'[s].timestamp = MinuteOf(clock')

TraderCompletesFirst ==
    /\ (/\ program = "trader" /\ Ingesting
        /\ current_1min # NoTime /\ MinuteOf(clock') > current_1min)
       => /\ \A c \in Range(current_1min_candles) :
                AppendedUnchanged(completed_1min_candles[c.symbol],
                                  completed_1min_candles'[c.symbol], c)
          /\ \A c \in Range(current_1min_candles') :
                c.timestamp = MinuteOf(clock')
    /\ (/\ program = "trader" /\ Ingesting
        /\ current_5min # NoTime /\ FiveMinuteOf(clock') > current_5min)
       => \A c \in Range(current_5min_candles') :
             c.timestamp = FiveMinuteOf(clock')

\* every tick of the candle arrived within the candle's bucket
WithinBucket(candle) ==
    /\ MinuteOf(candle.first_tick_time) = candle.timestamp
    /\ MinuteOf(candle.last_tick_time) = candle.timestamp

\* C15: when a batch arrives in a later minute than the tracked one, every
\* open candle of CandleBuilder and of LiveCandleTrader is appended to the
\* history unchanged and leaves the open set before any tick of the batch is
\* applied; no completed candle holds a tick that arrived in a later bucket.
C15_CompletionPrecedesIngestion ==
    /\ [][BuilderCompletesFirst /\ TraderCompletesFirst]_vars
    /\ [](\A c \in BuilderHistory
                   \cup UNION {Range(completed_1min_candles[s]) : s \in Symbols} :
             WithinBucket(c))

\* the trader completed a symbol's candle and the completing batch opened
\* the symbol's next one
C15_Witness ==
    /\ program = "trader"
    /\ last.path = "completed"
    /\ \E c \in Range(current_1min_candles) :
          /\ completed_1min_candles[c.symbol] # <<>>
          /\ c.timestamp = MinuteOf(clock)

IsPrefix(old, new) ==
    /\ Len(old) <= Len(new)
    /\ \A i \in DOMAIN old : new[i] = old[i]

StrictlyIncreasing(history) ==
    \A i, j \in DOMAIN history : i < j => history[i].timestamp < history[j].timestamp

\* C16: with non-decreasing clock readings and sequential callbacks the
\* completed history of CandleBuilder only grows, its entries never change,
\* the bucket timestamps of a symbol's history are strictly increasing, and a
\* completed candle is not the symbol's open candle.
C16_HistoryAppendOnly ==
    /\ [][\A s \in Symbols : IsPrefix(completed_candles[s], completed_candles'[s])]_vars
    /\ [](\A s \in Symbols :
             /\ StrictlyIncreasing(completed_candles[s])
             /\ s \in DOMAIN current_candles =>
                   \A c \in Range(completed_candles[s]) :
                       c.timestamp < current_candles[s].timestamp)

\* two completed candles of a symbol and a third one open
C16_Witness ==
    \E s \in DOMAIN current_candles : Len(completed_candles[s]) >= 2

Kept(map, after) ==
    \A k \in DOMAIN map : k \in DOMAIN after /\ after[k] = map[k]

RiskOverRange(n, breakout_range) ==
    (INITIAL_CAPITAL * RISK_NUM) \div (RISK_DEN * n * breakout_range)

\* C19: every live quantity equals max(1, floor(per_symbol_risk / |high -
\* low|)) of the symbol's breakout candle; no symbol is assigned, and no
\* entry order carries, a quantity below 1.
C19_QuantityIsFlooredAtOne ==
    program = "live" =>
       /\ \A s \in DOMAIN quantity_map :
             LET breakout_range == Abs(breakout_candles[s].high - breakout_candles[s].low)
             IN  /\ quantity_map[s] >= 1
                 /\ breakout_range > 0 =>
                       quantity_map[s] =
                          Max(1, RiskOverRange(Cardinality(DOMAIN breakout_candles),
                                               breakout_range))
       /\ \A i \in DOMAIN broker_orders :
             broker_orders[i].placed_by = "entry" => broker_orders[i].quantity >= 1

\* the step is a first run of initialize_candle_data in which every symbol's
\* reference candle was fetched
AllFetchedNow ==
    /\ program = "backtest"
    /\ ~candles_initialized
    /\ CANDLE_MAP = EmptyMap
    /\ DOMAIN CANDLE_MAP' = Symbols

\* C20: initialize_candle_data gives a symbol whose reference candle has
\* high = low the quantity 1, raises nothing, and sizes the other symbols.
C20_ZeroRangeFallsBackToOne ==
    [][AllFetchedNow =>
          /\ candles_initialized'
          /\ \A s \in Symbols :
                /\ s \in DOMAIN QUANTITY_MAP'
                /\ CANDLE_MAP'[s].high = CANDLE_MAP'[s].low => QUANTITY_MAP'[s] = 1]_vars

\* the range of the symbol's reference candle in the backtest
ReferenceRange(s) == Abs(CANDLE_MAP[s].high - CANDLE_MAP[s].low)

\* C21: the backtest sizes every symbol with per-symbol risk =
\* INITIAL_CAPITAL * TOTAL_RISK_PERCENTAGE / number of symbols and quantity =
\* max(1, floor(per-symbol risk / range)); with capital 360000, risk 2/100
\* and two symbols the per-symbol risk is 3600, range 10 gives 360 and range
\* 20 gives 180.  Stated of a completed initialisation: a failed one leaves
\* the quantities of an earlier attempt beside the candles of the later one.
C21_BacktestSizing ==
    program = "backtest" /\ candles_initialized =>
       \A s \in DOMAIN QUANTITY_MAP :
          /\ s \in DOMAIN CANDLE_MAP
          /\ ReferenceRange(s) > 0
          /\ QUANTITY_MAP[s] = Max(1, RiskOverRange(Len(SYMBOLS), ReferenceRange(s)))
          /\ QUANTITY_MAP[s] >= 1
          /\ RiskOverRange(Len(SYMBOLS), 1) = 3600
          /\ ReferenceRange(s) = 10 => QUANTITY_MAP[s] = 360
          /\ ReferenceRange(s) = 20 => QUANTITY_MAP[s] = 180

\* ranges 10 and 20 sized as 360 and 180
C21_Witness ==
    /\ program = "backtest"
    /\ candles_initialized
    /\ ReferenceRange("A") = 10 /\ QUANTITY_MAP["A"] = 360
    /\ ReferenceRange("B") = 20 /\ QUANTITY_MAP["B"] = 180

\* ------------------------------------------------- live against backtest
\* the symbol's position in an insertion-ordered positions map
PositionOf(positions, symbol) ==
    positions[CHOOSE i \in DOMAIN positions : positions[i].symbol = symbol]

\* C22: fed the same references, capital and completed 1-minute bars, the
\* live engine and the backtest hold the same entries: a symbol has a
\* position in one exactly when it has one in the other (it entered on the
\* same bar), with the same direction, quantity and stop-loss price.
C22_LiveMatchesBacktest ==
    program = "replay" =>
       \A s \in Symbols :
          /\ s \in Keys(positions_taken) <=> s \in Keys(POSITIONS_TAKEN)
          /\ s \in Keys(positions_taken) /\ s \in Keys(POSITIONS_TAKEN) =>
                LET l == PositionOf(positions_taken, s)
                    b == PositionOf(POSITIONS_TAKEN, s)
                IN  /\ l.direction = b.direction
                    /\ l.quantity = b.quantity
                    /\ l.stop_loss_price = b.stop_loss_price

\* ------------------------------------------- the trader and the wall clock
\* The wall clock advances whether or not the websocket delivers a batch:
\* LiveCandleTrader reads datetime.now() only inside on_ticks and starts no
\* timer, so a step of the clock alone changes nothing of the object.
clock_advances(now) ==
    /\ program = "trader"
    /\ now > clock
    /\ clock' = now
    /\ UNCHANGED <<ticks_seen, window_ticks, current_minute, current_candles,
                   completed_candles, current_1min, current_5min,
                   current_1min_candles, current_5min_candles,
                   completed_1min_candles, candle_lock, pc, frame, last>>
    /\ UNCHANGED program
    /\ UNCHANGED live_vars
    /\ UNCHANGED backtest_vars

TraderInit == Start({"trader"})

\* the batches of a steady feed, stamped with the minute they arrive in and
\* at one price: a tick of every tracked symbol, a tick of A, or a tick of
\* another instrument
SteadyBatches(now) ==
    {b \in Batches(now) : /\ \A i \in DOMAIN b : b[i].minute = MinuteOf(now)
                          /\ \A i \in DOMAIN b : b[i].symbol = "A" => b[i].last_price = 255
                          /\ Len(b) = 1 => b[1].symbol # "B"}

TraderCallback == \E now \in TraderInstants : \E ticks \in SteadyBatches(now) : LiveCandleTrader_on_ticks(now, ticks)

ClockStep == \E now \in TraderInstants : clock_advances(now)

TraderNext ==
    \/ TraderCallback
    \/ ClockStep

\* a batch that carries no tick of a tracked symbol: the callback still runs
\* the hour tests and check_minute_changes
Heartbeat == \E now \in TraderInstants : \E ticks \in {b \in SteadyBatches(now) : Tracked(b) = <<>>} : LiveCandleTrader_on_ticks(now, ticks)

\* the session while the websocket keeps delivering batches: time passes, and
\* at the least a batch of the other instruments arrives whenever one can
TraderLiveSpec == TraderInit /\ [][TraderNext]_vars /\ WF_vars(ClockStep) /\ WF_vars(Heartbeat)

\* the session whatever the websocket delivers: only the passing of time is
\* certain
TraderClockSpec == TraderInit /\ [][TraderNext]_vars /\ WF_vars(ClockStep)

\* every tracked symbol was sent a tick while the clock read 09:15 to 09:20,
\* and batches went on arriving after 09:20: a tick was ingested and its
\* 1-minute candle completed, and a callback ran the minute check after the
\* 5-minute bucket of 09:20 was over
ReferenceWindowFed ==
    /\ program = "trader"
    /\ window_ticks = Symbols
    /\ \E s \in Symbols : completed_1min_candles[s] # <<>>
    /\ current_5min > MARKET_START

\* C23: in LiveCandleTrader, once every tracked symbol was sent a tick while
\* the clock read 09:15 to 09:20, and with batches arriving after 09:20 for
\* as long as they can, a breakout candle is eventually recorded for every
\* symbol and breakout_candle_formed eventually becomes true.
C23_ReferenceBuildingReachesTrading ==
    ReferenceWindowFed
        ~> (breakout_candle_formed /\ \A s \in Symbols : s \in DOMAIN breakout_candles)

\* on the tick path the trader records no breakout candle at all
C23_NoReferenceOnTheTickPath ==
    program = "trader" => ~breakout_candle_formed /\ DOMAIN breakout_candles = {}

\* C24: in LiveCandleTrader, whenever the wall clock reaches STRATEGY_END
\* while trading_active is true, stop_trading_and_exit is eventually executed,
\* whatever batches arrive afterwards.
C24_StrategyEndLeadsToLiquidation ==
    (program = "trader" /\ trading_active /\ clock % 86400 >= STRATEGY_END)
        ~> ~trading_active

\* the number of entry orders in a book
EntryOrdersIn(orders) == Cardinality({i \in DOMAIN orders : orders[i].placed_by = "entry"})

\* a callback of the trader that must not trade: its clock reading is before
\* MARKET_START, after MARKET_END, at or after STRATEGY_END, or trading was
\* stopped before it
OutsideTradingWindow ==
    /\ program = "trader"
    /\ last'.op = "on_ticks"
    /\ \/ ~trading_active
       \/ (clock' % 86400) < MARKET_START
       \/ (clock' % 86400) > MARKET_END
       \/ (clock' % 86400) >= STRATEGY_END

\* C25: an on_ticks call of LiveCandleTrader whose clock reading is before
\* MARKET_START, after MARKET_END, at or after STRATEGY_END, or made after
\* trading_active became false, ingests no tick, completes no candle and
\* places no entry order.
C25_NoTradingOutsideTheWindow ==
    [][OutsideTradingWindow =>
          /\ current_1min_candles' = current_1min_candles
          /\ current_5min_candles' = current_5min_candles
          /\ completed_1min_candles' = completed_1min_candles
          /\ current_1min' = current_1min
          /\ current_5min' = current_5min
          /\ EntryOrdersIn(broker_orders') = EntryOrdersIn(broker_orders)
          /\ positions_taken' = <<>> \/ positions_taken' = positions_taken]_vars

\* a callback at STRATEGY_END found candles of an earlier minute open and left
\* them open
C25_Witness ==
    /\ program = "trader"
    /\ last.path = "strategy_end"
    /\ current_1min_candles # <<>>
    /\ MinuteOf(clock) > current_1min

\* ticks of both symbols were sent before MARKET_START and none was ingested
C25_DroppedBeforeOpen ==
    /\ program = "trader"
    /\ last.path = "closed"
    /\ window_ticks = Symbols
    /\ current_1min_candles = <<>>

\* STRATEGY_END of the backtest (15:00:00) on the scale of simulated_time: the
\* minute before the end_time of the loop (15:01:00)
StrategyEndMinute == EndMinute - 1

\* C26: in the backtest every entry recorded by check_breakout_for_symbol is
\* decided in a loop iteration whose simulated time is strictly before
\* STRATEGY_END.
C26_NoEntryAtOrAfterStrategyEnd ==
    [][(/\ program = "backtest"
        /\ last'.op = "check_breakout_for_symbol"
        /\ Len(TRADES_TAKEN') > Len(TRADES_TAKEN)
        /\ TRADES_TAKEN'[Len(TRADES_TAKEN')].trade_type = "ENTRY")
          => simulated_time < StrategyEndMinute]_vars

\* some symbol has a cached bar at or after the evaluation bucket of the
\* iteration (simulated time minus one minute)
BarsRemain == \E s \in Symbols : \E m \in HISTORICAL_DATA_CACHE[s] : m >= simulated_time - 1

\* an iteration of the backtest loop that got past candle initialisation
IterationHead ==
    /\ program = "backtest"
    /\ loop_pc = "head"
    /\ TRADING_ACTIVE
    /\ candles_initialized'

BacktestInit == Start({"backtest"})

BacktestNext ==
    \/ start_trading_head
    \/ \E bar \in Bars : check_symbol(bar)
    \/ advance_time

BacktestRunSpec == BacktestInit /\ [][BacktestNext]_vars /\ WF_vars(BacktestNext)

\* C28: the loop of HistoricalBreakoutTrader.start_trading reaches
\* stop_trading_and_exit after finitely many iterations, whatever the cached
\* bars and the outcomes of the collaborator calls.
C28_BacktestTerminates == <>(program = "backtest" /\ ~TRADING_ACTIVE /\ loop_pc = "done")

\* an iteration whose candle initialisation raised leaves the simulated clock
\* where it was and the loop at its head
C28_FailedIterationKeepsTheClock ==
    [][program = "backtest" /\ last'.op = "initialize_candle_data"
          => simulated_time' = simulated_time /\ loop_pc' = "head" /\ TRADING_ACTIVE']_vars

\* C29: in the backtest, when the historical source returns no 5-minute
\* reference bar for one symbol, every other symbol still receives a quantity
\* and the session goes on to evaluate breakouts.
C29_MissingReferenceDisablesOnlyItsSymbol ==
    [][(/\ program = "backtest"
        /\ last'.op = "initialize_candle_data"
        /\ last'.path = "KeyError")
          => /\ candles_initialized'
             /\ \A t \in Symbols \ {last'.symbol} :
                   t \in DOMAIN CANDLE_MAP' => t \in DOMAIN QUANTITY_MAP']_vars

\* the symbol without a reference bar is never entered
C29_NoReferenceNoTrade ==
    program = "backtest" =>
        \A s \in Symbols : s \notin DOMAIN CANDLE_MAP => ~AlreadyEntered(POSITIONS_TAKEN, s)

\* a session whose source has no reference bar for A while B has one never
\* got to size B
C29_OtherSymbolUnsized ==
    /\ program = "backtest"
    /\ last.op = "initialize_candle_data"
    /\ last.path = "KeyError"
    /\ last.symbol = "A"
    /\ "B" \in DOMAIN CANDLE_MAP
    /\ "B" \notin DOMAIN QUANTITY_MAP
    /\ ~candles_initialized

\* -------------------------------------------- concurrent on_ticks callbacks
\* Two invocations of on_ticks in flight.  Each reads the clock and takes its
\* early returns outside the lock, then waits for candle_lock, runs the
\* minute check, ingests its batch tick by tick and leaves the with block.
NoFrame == [now |-> 0 - 1, ticks |-> <<>>]

\* the clock readings of concurrent callbacks: 09:19:30, 09:20:00, 09:21:10
\* and, for the trader, 15:00:00
ThreadInstants == {33570, 33600, 33670, 54000}

\* the ticks of tracked symbols that concurrent callbacks deliver in all
ThreadTicks == MaxTicks - 1

\* the batches of concurrent callbacks: the ticks of A at one price
ThreadBatches(now) ==
    {b \in Batches(now) : \A k \in DOMAIN b : b[k].symbol = "A" /\ b[k].minute = MinuteOf(now) => b[k].last_price = 260}

\* the programs whose callbacks run concurrently: CandleBuilder,
\* LiveCandleTrader, and LiveCandleTrader with its references formed
ThreadPrograms == {"builder_threads", "trader_threads", "armed_threads"}

TraderThreads == {"trader_threads", "armed_threads"}

\* the references complete_5min_candle records before the callbacks
ArmedReferences ==
    {c \in RefCandles : c.high = 255 /\ c.low = 250}

\* the outcomes of the broker requests of the entries of one minute check;
\* without references no entry is attempted
ThreadOutcomes ==
    IF breakout_candle_formed
    THEN [Symbols -> EntryOutcomes]
    ELSE {[s \in Symbols |-> [entryOk |-> TRUE, slOk |-> TRUE]]}

\* an acquisition that does not wait for the holder to leave
lock_free_Always(holder) == TRUE

\* an exit of the with block that keeps the lock
with_exit_Held(holder) == holder

\* the exit of the with block, by the end of the body or by an exception:
\* the lock is free
with_exit(holder) == 0

\* threading.Lock: acquired only while no invocation holds it
lock_free(holder) == holder = 0

\* the assignments of the builder's candle fields
SetBuilder(cb) ==
    /\ current_minute' = cb.current_minute
    /\ current_candles' = cb.current_candles
    /\ completed_candles' = cb.completed_candles
    /\ UNCHANGED <<current_1min, current_5min, current_1min_candles,
                   current_5min_candles, completed_1min_candles>>
    /\ UNCHANGED live_vars

\* the assignments of the trader's candle and trading fields
SetTrader(tl) ==
    /\ current_1min' = tl.current_1min
    /\ current_5min' = tl.current_5min
    /\ current_1min_candles' = tl.current_1min_candles
    /\ current_5min_candles' = tl.current_5min_candles
    /\ completed_1min_candles' = tl.completed_1min_candles
    /\ breakout_candles' = tl.breakout_candles
    /\ quantity_map' = tl.quantity_map
    /\ breakout_candle_formed' = tl.breakout_candle_formed
    /\ available_capital' = tl.capital
    /\ positions_taken' = tl.positions
    /\ broker_orders' = tl.book.orders
    /\ broker_positions' = tl.book.net
    /\ UNCHANGED <<trading_active, current_minute, current_candles,
                   completed_candles>>

CandleFields == <<current_minute, current_candles, completed_candles, current_1min, current_5min, current_1min_candles, current_5min_candles, completed_1min_candles>>

\* the part of on_ticks before the with block: the clock is read; the trader
\* returns when trading is stopped or the market is closed, and liquidates
\* and returns at STRATEGY_END
on_ticks_enter(i, now, ticks) ==
    /\ program \in ThreadPrograms
    /\ pc[i] = "idle"
    /\ now >= clock
    /\ ticks_seen + Len(Tracked(ticks)) <= ThreadTicks
    /\ clock' = now
    /\ ticks_seen' = ticks_seen + Len(Tracked(ticks))
    /\ IF program \in TraderThreads /\ ~trading_active
       THEN /\ last' = Observed("on_ticks", "", "inactive", <<>>, <<>>)
            /\ UNCHANGED <<pc, frame>>
            /\ UNCHANGED live_vars
       ELSE IF program \in TraderThreads /\ outside_market_hours(now)
       THEN /\ last' = Observed("on_ticks", "", "closed", <<>>, <<>>)
            /\ UNCHANGED <<pc, frame>>
            /\ UNCHANGED live_vars
       ELSE IF program \in TraderThreads /\ at_strategy_end(now)
       THEN /\ stop_trading_and_exit_from_on_ticks
            /\ UNCHANGED <<pc, frame, available_capital, quantity_map,
                           breakout_candles, breakout_candle_formed>>
       ELSE /\ pc' = [pc EXCEPT ![i] = "waiting"]
            /\ frame' = [frame EXCEPT ![i] = [now |-> now, ticks |-> ticks]]
            /\ last' = Observed("on_ticks", "", "", <<>>, <<>>)
            /\ UNCHANGED live_vars
    /\ UNCHANGED <<window_ticks, candle_lock>>
    /\ UNCHANGED CandleFields
    /\ UNCHANGED program
    /\ UNCHANGED backtest_vars

\* with self.candle_lock: the invocation enters when the lock is free
on_ticks_acquire(i) ==
    /\ program \in ThreadPrograms
    /\ pc[i] = "waiting"
    /\ lock_free(candle_lock)
    /\ candle_lock' = i
    /\ pc' = [pc EXCEPT ![i] = "check"]
    /\ last' = Observed("on_ticks", "", "", <<>>, <<>>)
    /\ UNCHANGED <<clock, ticks_seen, window_ticks, frame>>
    /\ UNCHANGED CandleFields
    /\ UNCHANGED program
    /\ UNCHANGED live_vars
    /\ UNCHANGED backtest_vars

\* check_minute_change (builder) or check_minute_changes (trader) with the
\* clock reading the invocation took before the lock
on_ticks_check(i) ==
    /\ program \in ThreadPrograms
    /\ pc[i] = "check"
    /\ IF program = "builder_threads"
       THEN \E cb \in {check_minute_change(Builder, frame[i].now)} :
               /\ SetBuilder(cb)
               /\ last' = Observed("on_ticks", "", "", <<>>, <<>>)
       ELSE \E outcomes \in ThreadOutcomes :
            \E tl \in {check_minute_changes(TickTrader, frame[i].now, outcomes)} :
               /\ SetTrader(tl)
               /\ last' = Observed("on_ticks", "", IF tl.raised # {} THEN "raised" ELSE "", <<>>, <<>>)
    /\ pc' = [pc EXCEPT ![i] = "ingest"]
    /\ UNCHANGED <<clock, ticks_seen, window_ticks, candle_lock, frame>>
    /\ UNCHANGED program
    /\ UNCHANGED backtest_vars

\* one pass of the for loop over the batch
on_ticks_ingest(i) ==
    /\ program \in ThreadPrograms
    /\ pc[i] = "ingest"
    /\ frame[i].ticks # <<>>
    /\ IF program = "builder_threads"
       THEN \E cb \in {builder_tick(Builder, Head(frame[i].ticks), frame[i].now)} : SetBuilder(cb)
       ELSE \E tl \in {trader_tick(TickTrader, Head(frame[i].ticks), frame[i].now)} : SetTrader(tl)
    /\ frame' = [frame EXCEPT ![i].ticks = Tail(@)]
    /\ last' = Observed("on_ticks", "", "", <<>>, <<>>)
    /\ UNCHANGED <<clock, ticks_seen, window_ticks, candle_lock, pc>>
    /\ UNCHANGED program
    /\ UNCHANGED backtest_vars

\* the end of the with block
on_ticks_release(i) ==
    /\ program \in ThreadPrograms
    /\ pc[i] = "ingest"
    /\ frame[i].ticks = <<>>
    /\ candle_lock' = with_exit(candle_lock)
    /\ pc' = [pc EXCEPT ![i] = "idle"]
    /\ frame' = [frame EXCEPT ![i] = NoFrame]
    /\ last' = Observed("on_ticks", "", "", <<>>, <<>>)
    /\ UNCHANGED <<clock, ticks_seen, window_ticks>>
    /\ UNCHANGED CandleFields
    /\ UNCHANGED program
    /\ UNCHANGED live_vars
    /\ UNCHANGED backtest_vars

\* complete_5min_candle for the candle of the 09:15 bucket, before the
\* first callback: the reference is recorded and, with the last one, the
\* quantities are computed and the gate opens
armed_complete_5min_candle(symbol, candle) ==
    /\ program = "armed_threads"
    /\ clock = NoTime
    /\ symbol \notin DOMAIN breakout_candles
    /\ \E gate \in {set_breakout_candle(Gate, symbol, candle)} :
          /\ breakout_candles' = gate.breakout_candles
          /\ quantity_map' = gate.quantity_map
          /\ breakout_candle_formed' = gate.breakout_candle_formed
    /\ last' = Observed("complete_5min_candle", symbol, "", <<>>, <<>>)
    /\ UNCHANGED <<program, trading_active, available_capital, positions_taken, broker_orders, broker_positions>>
    /\ UNCHANGED backtest_vars
    /\ UNCHANGED tick_vars

ThreadsInit == Start({"builder_threads", "trader_threads"})

ThreadsNext ==
    \/ \E i \in Invocations, now \in ThreadInstants : \E ticks \in ThreadBatches(now) : on_ticks_enter(i, now, ticks)
    \/ \E i \in Invocations : on_ticks_acquire(i)
    \/ \E i \in Invocations : on_ticks_check(i)
    \/ \E i \in Invocations : on_ticks_ingest(i)
    \/ \E i \in Invocations : on_ticks_release(i)

ThreadsSpec == ThreadsInit /\ [][ThreadsNext]_vars

\* the trader's concurrent callbacks with the references formed
ArmedInit == Start({"armed_threads"})

ArmedNext ==
    \/ \E s \in Symbols, c \in ArmedReferences : armed_complete_5min_candle(s, c)
    \/ ThreadsNext

ArmedSpec == ArmedInit /\ [][ArmedNext]_vars

\* invocation i is between its acquisition of candle_lock and its release
InCriticalSection(i) == pc[i] \in {"check", "ingest"}

\* the step is one of invocation i
StepOf(i) == pc'[i] # pc[i] \/ frame'[i] # frame[i]

\* C30: in CandleBuilder and LiveCandleTrader, for any interleaving of
\* concurrent on_ticks invocations, the minute check and the ingestion of the
\* whole batch of one invocation run under candle_lock as one critical
\* section: the invocation holds the lock throughout, no two invocations are
\* inside together, and no step of another invocation touches the candles
\* in between.
C30_TickBatchesAreSerialized ==
    /\ [](\A i \in Invocations : InCriticalSection(i) => candle_lock = i)
    /\ [](\A i, j \in Invocations : InCriticalSection(i) /\ InCriticalSection(j) => i = j)
    /\ [][\A i \in Invocations :
             InCriticalSection(i) /\ ~StepOf(i) => UNCHANGED CandleFields]_vars
    /\ [][\A i \in Invocations :
             UNCHANGED CandleFields \/ (StepOf(i) => InCriticalSection(i))]_vars

\* one invocation has ingested a tick and is still inside the with block
\* while the other, with a tracked tick to ingest, waits for the lock
C30_Witness ==
    \E i, j \in Invocations :
        /\ pc[i] = "ingest"
        /\ pc[j] = "waiting"
        /\ Tracked(frame[j].ticks) # <<>>
        /\ frame[i].ticks # <<>>
        /\ DOMAIN current_candles # {} \/ current_1min_candles # <<>>

\* ------------------------------------- the 5-minute candle and its minutes
\* the 1-minute candles of a history that belong to a 5-minute bucket
BarsOfBucket(history, bucket) == SelectSeq(history, LAMBDA c : FiveMinuteOf(c.timestamp) = bucket)

RECURSIVE SumOfVolumes(_)
SumOfVolumes(bars) == IF bars = <<>> THEN 0 ELSE Head(bars).volume + SumOfVolumes(Tail(bars))

HighsOf(bars) == [i \in DOMAIN bars |-> bars[i].high]
LowsOf(bars) == [i \in DOMAIN bars |-> bars[i].low]

\* this callback of the trader completes the open 5-minute candle of s, a
\* candle of a bucket before 10:00
Completes5min(s) ==
    /\ program = "trader"
    /\ Ingesting
    /\ s \in Keys(current_5min_candles)
    /\ current_5min # NoTime
    /\ FiveMinuteOf(clock') > current_5min
    /\ Get(current_5min_candles, s).timestamp < FIVE_MIN_END

\* open, high, low and close of the completed 5-minute candle against the
\* 1-minute candles of its bucket
ConsolidatesPrices(candle, bars) ==
    /\ bars # <<>>
    /\ candle.open = bars[1].open
    /\ candle.close = bars[Len(bars)].close
    /\ candle.high = MaxOf(HighsOf(bars))
    /\ candle.low = MinOf(LowsOf(bars))

\* C31: in LiveCandleTrader the completed 5-minute candle of a symbol, for a
\* bucket before 10:00, has the open of the earliest 1-minute candle of the
\* bucket, the close of the latest, the maximum of their highs, the minimum
\* of their lows and the sum of their volumes.
C31_FiveMinuteEqualsConsolidation ==
    [][\A s \in Symbols :
          Completes5min(s) =>
             LET candle == Get(current_5min_candles, s)
                 bars == BarsOfBucket(completed_1min_candles'[s], candle.timestamp)
             IN  /\ ConsolidatesPrices(candle, bars)
                 /\ candle.volume = SumOfVolumes(bars)]_vars

\* the prices do consolidate
C31_PricesConsolidate ==
    [][\A s \in Symbols :
          Completes5min(s) =>
             ConsolidatesPrices(Get(current_5min_candles, s),
                                BarsOfBucket(completed_1min_candles'[s],
                                             Get(current_5min_candles, s).timestamp))]_vars

\* a 5-minute candle built over two minutes was completed: its volume holds
\* the volume of the second minute's opening tick, which no 1-minute candle
\* holds
C31_TwoMinuteBucket ==
    /\ program = "trader"
    /\ \E s \in Symbols :
          /\ Len(BarsOfBucket(completed_1min_candles[s], MARKET_START)) = 2
          /\ s \notin Keys(current_5min_candles)
          /\ current_5min > MARKET_START

\* ------------------------- kite_websocket.py: concurrent tick callbacks
\* kite_websocket.py keeps its state in module globals of the same names as
\* the backtest's: TRADING_ACTIVE, AVAILABLE_CAPITAL, POSITIONS_TAKEN,
\* QUANTITY_MAP, CANDLE_MAP and candles_initialized. The file creates no
\* lock: an on_ticks invocation can be suspended at each broker request.

\* MARKET_START of kite_websocket.py, 09:21:00
WebSocket_MARKET_START == 33660

\* the clock readings of the callbacks: 09:20:00, 09:21:10 and 15:00:00
WebSocketInstants == {33600, 33670, 54000}

\* the ticks one callback delivers, and the ticks delivered in all
WebSocketBatchLen == 2
WebSocketTicks == MaxTicks

WebSocketBatches ==
    UNION {[1..n -> [symbol : Symbols, last_price : Prices]] : n \in 1..WebSocketBatchLen}

\* the first 5-minute candle kite.historical_data returns for a symbol
WebSocketReferences ==
    {[high |-> 255, low |-> 250], [high |-> 260, low |-> 255], [high |-> 255, low |-> 255]}

\* the globals of kite_websocket.py and the backtest's other fields
WebSocketGlobals == <<TRADING_ACTIVE, AVAILABLE_CAPITAL, POSITIONS_TAKEN, QUANTITY_MAP, CANDLE_MAP, candles_initialized>>

BacktestOnly == <<TRADES_TAKEN, simulated_time, last_checked_minute, loop_pc, loop_index, HISTORICAL_DATA_CACHE>>

\* the second loop of initialize_candle_data: int(per_stock_risk / range)
\* per symbol in the order of SYMBOLS; a zero range raises and leaves the
\* quantities assigned so far
RECURSIVE websocket_size_symbols(_, _, _)
websocket_size_symbols(quantities, candle_map, k) ==
    IF k > Len(SYMBOLS) THEN [quantities |-> quantities, ok |-> TRUE]
    ELSE LET candle == candle_map[SYMBOLS[k]]
             breakout_range == candle.high - candle.low
         IN IF breakout_range = 0
            THEN [quantities |-> quantities, ok |-> FALSE]
            ELSE websocket_size_symbols(
                     Put(quantities, SYMBOLS[k], RiskOverRange(Len(SYMBOLS), breakout_range)),
                     candle_map, k + 1)

\* initialize_candle_data of kite_websocket.py: CANDLE_MAP[symbol] is the
\* first fetched candle, then the quantities
websocket_initialize_candle_data(fetched) ==
    LET sized == websocket_size_symbols(QUANTITY_MAP, fetched, 1)
    IN [CANDLE_MAP |-> fetched, QUANTITY_MAP |-> sized.quantities, ok |-> sized.ok]

\* closeAllPositions of kite_websocket.py: per position the stop order is
\* cancelled when there is one and the opposite market order is placed;
\* the requests, in the order they are made
RECURSIVE closeAllPositions_requests(_)
closeAllPositions_requests(positions) ==
    IF positions = <<>> THEN <<>>
    ELSE LET p == Head(positions)
             closing == Call("place_order", "closeAllPositions", p.symbol, 0, OppositeDirection(p.direction), p.quantity, TRUE)
         IN (IF p.stop_loss_order_id # 0
             THEN <<Call("cancel_order", "closeAllPositions", p.symbol, p.stop_loss_order_id, "", 0, TRUE)>>
             ELSE <<>>)
            \o <<closing>> \o closeAllPositions_requests(Tail(positions))

\* the locals of an invocation with no tick in hand
WebSocketFrame(now, ticks) ==
    [now |-> now, ticks |-> ticks, symbol |-> "", quantity |-> 0, ltp |-> 0, deployed_capital |-> 0, direction |-> ""]

\* on_ticks up to its for loop: the early returns, the liquidation at
\* STRATEGY_END and the initialisation of the candles
websocket_on_ticks(i, now, ticks, fetched) ==
    /\ program = "websocket"
    /\ pc[i] = "idle"
    /\ now >= clock
    /\ ticks_seen + Len(ticks) <= WebSocketTicks
    /\ clock' = now
    /\ ticks_seen' = ticks_seen + Len(ticks)
    /\ IF ~TRADING_ACTIVE
       THEN /\ last' = Observed("on_ticks", "", "inactive", <<>>, <<>>)
            /\ UNCHANGED <<pc, frame>>
            /\ UNCHANGED WebSocketGlobals
       ELSE IF now < WebSocket_MARKET_START \/ now > MARKET_END
       THEN /\ last' = Observed("on_ticks", "", "closed", <<>>, <<>>)
            /\ UNCHANGED <<pc, frame>>
            /\ UNCHANGED WebSocketGlobals
       ELSE IF now >= STRATEGY_END
       THEN /\ TRADING_ACTIVE' = FALSE
            /\ POSITIONS_TAKEN' = <<>>
            /\ last' = Observed("on_ticks", "", "strategy_end", closeAllPositions_requests(POSITIONS_TAKEN), <<>>)
            /\ UNCHANGED <<pc, frame, AVAILABLE_CAPITAL, QUANTITY_MAP, CANDLE_MAP, candles_initialized>>
       ELSE IF candles_initialized
       THEN /\ pc' = [pc EXCEPT ![i] = "tick"]
            /\ frame' = [frame EXCEPT ![i] = WebSocketFrame(now, ticks)]
            /\ last' = Observed("on_ticks", "", "", <<>>, <<>>)
            /\ UNCHANGED WebSocketGlobals
       ELSE \E init \in {websocket_initialize_candle_data(fetched)} :
               /\ CANDLE_MAP' = init.CANDLE_MAP
               /\ QUANTITY_MAP' = init.QUANTITY_MAP
               /\ candles_initialized' = init.ok
               /\ pc' = [pc EXCEPT ![i] = IF init.ok THEN "tick" ELSE "idle"]
               /\ frame' = [frame EXCEPT ![i] = IF init.ok THEN WebSocketFrame(now, ticks) ELSE NoFrame]
               /\ last' = Observed("on_ticks", "", IF init.ok THEN "" ELSE "ZeroDivisionError", <<>>, <<>>)
               /\ UNCHANGED <<TRADING_ACTIVE, AVAILABLE_CAPITAL, POSITIONS_TAKEN>>
    /\ UNCHANGED <<window_ticks, candle_lock>>
    /\ UNCHANGED CandleFields
    /\ UNCHANGED BacktestOnly
    /\ UNCHANGED program
    /\ UNCHANGED live_vars

\* the capital test of lookfor_buy_sell: the entry is skipped when it needs
\* more than is available
capital_suffices(deployed_capital, available) == ~(deployed_capital > available)

\* one pass of the for loop up to the broker request: lookfor_buy_sell
\* returns when the symbol has a position, when the capital does not
\* suffice or when the price is inside the range; on_ticks returns when the
\* batch is used up
websocket_lookfor_buy_sell(i) ==
    /\ program = "websocket"
    /\ pc[i] = "tick"
    /\ IF frame[i].ticks = <<>>
       THEN /\ pc' = [pc EXCEPT ![i] = "idle"]
            /\ frame' = [frame EXCEPT ![i] = NoFrame]
            /\ last' = Observed("on_ticks", "", "return", <<>>, <<>>)
       ELSE LET tick == Head(frame[i].ticks)
                symbol == tick.symbol
                quantity == QUANTITY_MAP[symbol]
                ltp == tick.last_price
                candle == CANDLE_MAP[symbol]
                deployed_capital == quantity * ltp
                direction == IF ltp > candle.high THEN "BUY"
                             ELSE IF ltp < candle.low THEN "SELL" ELSE ""
                skipped == \/ symbol \in Keys(POSITIONS_TAKEN)
                           \/ ~capital_suffices(deployed_capital, AVAILABLE_CAPITAL)
                           \/ direction = ""
            IN IF skipped
               THEN /\ UNCHANGED pc
                    /\ frame' = [frame EXCEPT ![i].ticks = Tail(@)]
                    /\ last' = Observed("lookfor_buy_sell", symbol, "skip", <<>>, <<>>)
               ELSE /\ pc' = [pc EXCEPT ![i] = "order"]
                    /\ frame' = [frame EXCEPT ![i] = [now |-> @.now, ticks |-> Tail(@.ticks), symbol |-> symbol, quantity |-> quantity, ltp |-> ltp, deployed_capital |-> deployed_capital, direction |-> direction]]
                    /\ last' = Observed("lookfor_buy_sell", symbol, "test", <<>>, <<>>)
    /\ UNCHANGED <<clock, ticks_seen, window_ticks, candle_lock>>
    /\ UNCHANGED WebSocketGlobals
    /\ UNCHANGED CandleFields
    /\ UNCHANGED BacktestOnly
    /\ UNCHANGED program
    /\ UNCHANGED live_vars

\* kite.place_order returns, and AVAILABLE_CAPITAL -= deployed_capital; or
\* it raises and the except clause ends the attempt
websocket_place_order(i, ok) ==
    /\ program = "websocket"
    /\ pc[i] = "order"
    /\ IF ok
       THEN /\ AVAILABLE_CAPITAL' = AVAILABLE_CAPITAL - frame[i].deployed_capital
            /\ pc' = [pc EXCEPT ![i] = "stop_loss"]
            /\ UNCHANGED frame
            /\ last' = Observed("lookfor_buy_sell", frame[i].symbol, "deducted", <<>>, <<>>)
       ELSE /\ pc' = [pc EXCEPT ![i] = "tick"]
            /\ frame' = [frame EXCEPT ![i] = WebSocketFrame(@.now, @.ticks)]
            /\ last' = Observed("lookfor_buy_sell", frame[i].symbol, "failed", <<>>, <<>>)
            /\ UNCHANGED AVAILABLE_CAPITAL
    /\ UNCHANGED <<TRADING_ACTIVE, POSITIONS_TAKEN, QUANTITY_MAP, CANDLE_MAP, candles_initialized>>
    /\ UNCHANGED <<clock, ticks_seen, window_ticks, candle_lock>>
    /\ UNCHANGED CandleFields
    /\ UNCHANGED BacktestOnly
    /\ UNCHANGED program
    /\ UNCHANGED live_vars

\* place_stop_loss_order returns its order or None, and
\* POSITIONS_TAKEN[symbol] = position_data
websocket_record_position(i, slOk) ==
    /\ program = "websocket"
    /\ pc[i] = "stop_loss"
    /\ POSITIONS_TAKEN' = Set(POSITIONS_TAKEN, [symbol |-> frame[i].symbol, direction |-> frame[i].direction, quantity |-> frame[i].quantity, price |-> frame[i].ltp, stop_loss_order_id |-> IF slOk THEN 1 ELSE 0])
    /\ pc' = [pc EXCEPT ![i] = "tick"]
    /\ frame' = [frame EXCEPT ![i] = WebSocketFrame(@.now, @.ticks)]
    /\ last' = Observed("lookfor_buy_sell", frame[i].symbol, "recorded", <<>>, <<>>)
    /\ UNCHANGED <<TRADING_ACTIVE, AVAILABLE_CAPITAL, QUANTITY_MAP, CANDLE_MAP, candles_initialized>>
    /\ UNCHANGED <<clock, ticks_seen, window_ticks, candle_lock>>
    /\ UNCHANGED CandleFields
    /\ UNCHANGED BacktestOnly
    /\ UNCHANGED program
    /\ UNCHANGED live_vars

WebSocketInit == Start({"websocket"})

WebSocketNext ==
    \/ \E i \in Invocations, now \in WebSocketInstants, ticks \in WebSocketBatches : \E fetched \in [Symbols -> WebSocketReferences] : websocket_on_ticks(i, now, ticks, fetched)
    \/ \E i \in Invocations : websocket_lookfor_buy_sell(i)
    \/ \E i \in Invocations, ok \in BOOLEAN : websocket_place_order(i, ok)
    \/ \E i \in Invocations, slOk \in BOOLEAN : websocket_record_position(i, slOk)

WebSocketSpec == WebSocketInit /\ [][WebSocketNext]_vars

\* C32: in kite_websocket, for any interleaving of concurrent on_ticks
\* invocations running lookfor_buy_sell, AVAILABLE_CAPITAL never becomes
\* negative (each entry decision and its commit are atomic).
C32_CapitalNeverNegative ==
    program = "websocket" => AVAILABLE_CAPITAL >= 0

\* the holder of candle_lock can take its next step inside the with block
HolderCanProceed(i) ==
    ENABLED (on_ticks_check(i) \/ on_ticks_ingest(i) \/ on_ticks_release(i))

\* C33: in LiveCandleTrader candle_lock is released at the end of every
\* on_ticks invocation, including when an entry or stop order call raises
\* inside check_breakout_entry, so a subsequent invocation can always
\* acquire it: only an invocation inside the with block holds the lock, the
\* holder can always proceed, a minute check in which a broker request
\* raised goes on to the loop over the batch, and every invocation that
\* returns leaves the lock free.
C33_LockIsAlwaysReleased ==
    /\ [](program = "armed_threads" =>
            \A i \in Invocations :
               /\ pc[i] \in {"idle", "waiting"} => candle_lock # i
               /\ candle_lock = i => pc[i] \in {"check", "ingest"} /\ HolderCanProceed(i))
    /\ [][program = "armed_threads" =>
            \A i \in Invocations :
               /\ (pc[i] = "check" /\ pc'[i] # "check" /\ last'.path = "raised")
                     => pc'[i] = "ingest" /\ candle_lock' = i
               /\ (pc[i] \in {"check", "ingest"} /\ pc'[i] = "idle")
                     => candle_lock' = 0]_vars

\* a stop order call raised in an earlier minute check (the position has no
\* stop order), that invocation returned, and the next one is inside
C33_Witness ==
    /\ program = "armed_threads"
    /\ \E k \in DOMAIN positions_taken : "stop_loss_order_id" \notin DOMAIN positions_taken[k]
    /\ \E i \in Invocations : candle_lock = i /\ pc[i] = "check"

\* an entry order call raised in the minute check of the holder, which goes
\* on inside the with block
C33_EntryRaised ==
    /\ program = "armed_threads"
    /\ last.path = "raised"
    /\ positions_taken = <<>>
    /\ \E i \in Invocations : candle_lock = i /\ pc[i] = "ingest"

\* ------------------------------------------ backtest: evaluation order
\* the bucket of 09:20, the first one after the reference window
FirstBucket == 0 - 1

\* the symbol of the pass of the for loop that is about to run
LoopSymbol == SYMBOLS[loop_index]

\* the bar's close breaches the symbol's range
CloseBreaches(bar, symbol) ==
    \/ bar.close > CANDLE_MAP[symbol].high
    \/ bar.close < CANDLE_MAP[symbol].low

\* the capital covers the entry at the bar's close
Affordable(bar, symbol) ==
    QUANTITY_MAP[symbol] * bar.close <= AVAILABLE_CAPITAL

\* a pass of the for loop that evaluates a cached bar for a symbol without
\* a position
Evaluates(bar) ==
    /\ check_symbol(bar)
    /\ bar.present
    /\ LoopSymbol \notin Keys(POSITIONS_TAKEN)

\* C34: for each symbol check_breakouts_from_cached_data evaluates cached
\* 1-minute bars in strictly increasing bucket order, each bucket at most
\* once, never a bar inside the reference window (bucket before 09:20), and
\* the entry is taken on the earliest evaluated bar whose close breaches the
\* range while capital is sufficient: every check is of a later bucket than
\* the one before and of 09:20 at the earliest, a check passes over each
\* symbol once and evaluates that bucket's bar only, and an evaluated bar
\* leads to the entry exactly when it breaches and is affordable.
C34_BacktestEvaluationOrder ==
    [][program = "backtest" =>
          /\ (loop_pc = "head" /\ loop_pc' = "check")
                => /\ last_checked_minute' > last_checked_minute
                   /\ last_checked_minute' >= FirstBucket
                   /\ loop_index' = 1
          /\ \A bar \in Bars : Evaluates(bar) =>
                /\ last_checked_minute = simulated_time - 1
                /\ last_checked_minute \in HISTORICAL_DATA_CACHE[LoopSymbol]
                /\ loop_index' = loop_index + 1
                /\ (LoopSymbol \in Keys(POSITIONS_TAKEN'))
                      <=> (CloseBreaches(bar, LoopSymbol) /\ Affordable(bar, LoopSymbol))
                /\ (LoopSymbol \in Keys(POSITIONS_TAKEN'))
                      => Get(POSITIONS_TAKEN', LoopSymbol).price = bar.close
          /\ (loop_pc = "check" /\ loop_pc' = "check") => UNCHANGED <<simulated_time, last_checked_minute>>
          /\ Keys(POSITIONS_TAKEN') # Keys(POSITIONS_TAKEN) /\ TRADING_ACTIVE'
                => \E bar \in Bars : Evaluates(bar)]_vars

\* B, whose cache holds the bars of 09:19, 09:20 and 09:21, was passed over
\* at 09:20 (no breach, or too dear after A's entry) and is entered on the
\* bar of 09:21
C34_Witness ==
    /\ program = "backtest"
    /\ HISTORICAL_DATA_CACHE["B"] = {0 - 2, 0 - 1, 0}
    /\ last.op = "check_breakout_for_symbol"
    /\ last.symbol = "B"
    /\ last.path \in {"buy", "sell"}
    /\ last_checked_minute = 0

\* ------------------------------------- live: both thresholds crossed
\* the completed candle is above the reference high and below the
\* reference low at once
CrossesBoth(candle, reference) ==
    candle.high > reference.high /\ candle.low < reference.low

\* the orders the step added to the broker's book
NewOrders == SubSeq(broker_orders', Len(broker_orders) + 1, Len(broker_orders'))

\* C35: in LiveCandleTrader.check_breakout_entry, when a completed candle
\* has high > reference.high and low < reference.low at once, exactly one
\* entry is taken and it is a long (BUY) entry with stop at reference.low; a
\* short entry is never taken for that candle.
C35_FirstCheckedDirectionWins ==
    [][(program = "live" /\ last'.op = "check_breakout_entry") =>
          \A s \in {last'.symbol} : Armed(s) =>
          \A c \in {c \in Candles : CrossesBoth(c, breakout_candles[s])}, outcome \in EntryOutcomes :
             complete_1min_candle(s, c, outcome)
             => LET reference == breakout_candles[s]
                    entries == SelectSeq(NewOrders, LAMBDA o : o.placed_by = "entry")
                    stops == SelectSeq(NewOrders, LAMBDA o : o.placed_by = "stop")
                IN  /\ \A k \in DOMAIN NewOrders :
                          ~(NewOrders[k].placed_by = "entry" /\ NewOrders[k].transaction_type = "SELL")
                    /\ IF outcome.entryOk /\ quantity_map[s] * c.close <= available_capital
                       THEN /\ Len(entries) = 1
                            /\ entries[1].transaction_type = "BUY"
                            /\ entries[1].tradingsymbol = s
                            /\ Len(positions_taken') = Len(positions_taken) + 1
                            /\ Get(positions_taken', s).direction = "BUY"
                            /\ Get(positions_taken', s).price = c.close
                            /\ outcome.slOk
                                  => /\ Len(stops) = 1
                                     /\ stops[1].transaction_type = "SELL"
                                     /\ stops[1].trigger_price = reference.low
                                     /\ Get(positions_taken', s).stop_loss_price = reference.low
                       ELSE /\ Len(entries) = 0
                            /\ positions_taken' = positions_taken]_vars

\* a long entry with its stop at the reference low was taken on a candle
\* that closed below the reference low: the candle's high is above the
\* reference high and its low below the reference low
C35_Witness ==
    /\ program = "live"
    /\ last.op = "check_breakout_entry"
    /\ last.path = "buy"
    /\ last.symbol \in Keys(positions_taken)
    /\ LET p == Get(positions_taken, last.symbol)
       IN  /\ p.direction = "BUY"
           /\ p.price < breakout_candles[last.symbol].low
           /\ "stop_loss_price" \in DOMAIN p
           /\ p.stop_loss_price = breakout_candles[last.symbol].low

C36_StoppedInvocationReturns ==
    [][(program = "armed_threads" /\ ~trading_active /\ \E i \in Invocations : pc[i] = "idle" /\ pc'[i] # "idle")
          => FALSE]_vars

\* a position is held after the liquidation emptied positions_taken
C36_EnteredAfterLiquidation ==
    /\ program = "armed_threads"
    /\ ~trading_active
    /\ positions_taken # <<>>

\* ----------------------------- CandleBuilder: ticks of concurrent callbacks
\* the candles of the builder: the open ones and the completed ones
BuilderCandles ==
    {current_candles[s] : s \in DOMAIN current_candles}
       \cup UNION {{completed_candles[s][k] : k \in DOMAIN completed_candles[s]} : s \in Symbols}

\* the symbol's history holds two candles of one bucket
DuplicateBucket(s) ==
    \E j, k \in DOMAIN completed_candles[s] :
        j # k /\ completed_candles[s][j].timestamp = completed_candles[s][k].timestamp

\* C37: in CandleBuilder, for any interleaving of concurrent on_ticks
\* invocations, every tick is applied only to a candle whose bucket
\* timestamp equals the minute of the clock reading taken by that
\* invocation, so every candle has last_tick_time >= first_tick_time and no
\* symbol's history contains two candles with the same bucket timestamp.
C37_TicksLandInTheirOwnBucket ==
    /\ [][program = "builder_threads" =>
            \A i \in Invocations :
               (pc[i] = "ingest" /\ frame[i].ticks # <<>> /\ frame'[i].ticks # frame[i].ticks
                   /\ Head(frame[i].ticks).symbol \in Symbols)
               => current_candles'[Head(frame[i].ticks).symbol].timestamp = MinuteOf(frame[i].now)]_vars
    /\ [](program = "builder_threads" =>
            /\ \A c \in BuilderCandles : c.last_tick_time >= c.first_tick_time
            /\ \A s \in Symbols : ~DuplicateBucket(s))

\* a candle whose last tick is earlier than its first
C37_LastTickBeforeFirst ==
    program = "builder_threads" => \A c \in BuilderCandles : c.last_tick_time >= c.first_tick_time

\* no history holds two candles of one bucket
C37_NoDuplicateBucket ==
    program = "builder_threads" => \A s \in Symbols : ~DuplicateBucket(s)

\* ------------------------------------------- live: capital conservation
\* the sum over the positions of quantity * entry price
RECURSIVE DeployedIn(_)
DeployedIn(positions) ==
    IF positions = <<>> THEN 0
    ELSE Head(positions).quantity * Head(positions).price + DeployedIn(Tail(positions))

\* C38: in LiveCandleTrader, at every tick-batch boundary before
\* liquidation, available_capital plus the sum over positions_taken of
\* quantity * entry price equals INITIAL_CAPITAL.
C38_CapitalIsConserved ==
    (program = "live" /\ trading_active)
       => available_capital + DeployedIn(positions_taken) = INITIAL_CAPITAL

\* two positions are held before liquidation, one of them without a stop
\* order (its stop request raised)
C38_Witness ==
    /\ program = "live"
    /\ trading_active
    /\ Len(positions_taken) = 2
    /\ \E k \in DOMAIN positions_taken : "stop_loss_order_id" \notin DOMAIN positions_taken[k]
    /\ available_capital < INITIAL_CAPITAL

\* the same at the boundaries of the tick batches of the concurrent
\* callbacks, while trading is active
C38_AtBatchBoundaries ==
    (program = "armed_threads" /\ trading_active /\ \A i \in Invocations : pc[i] = "idle")
       => available_capital + DeployedIn(positions_taken) = INITIAL_CAPITAL

C38_BatchBoundaryWithPosition ==
    /\ program = "armed_threads"
    /\ trading_active
    /\ \A i \in Invocations : pc[i] = "idle"
    /\ positions_taken # <<>>

\* ------------------------------------ live: the order of the liquidation
\* the positions in calls of the requests close_all_positions made for a
\* symbol
ClosingCalls(calls, symbol) ==
    {k \in DOMAIN calls : /\ calls[k].by = "close_all_positions"
                          /\ calls[k].call = "place_order"
                          /\ calls[k].symbol = symbol}

StopCancels(calls, symbol) ==
    {k \in DOMAIN calls : /\ calls[k].by = "close_all_positions"
                          /\ calls[k].call = "cancel_order"
                          /\ calls[k].symbol = symbol}

\* C39: in LiveCandleTrader.close_all_positions, for every locally tracked
\* position that has a stop_loss_order_id, the cancel request for that stop
\* order is issued before the closing market order for the same symbol, and
\* the closing order has the opposite direction and the same quantity as
\* the entry.
C39_CancelBeforeClose ==
    [][(LiveLiquidation(last') /\ trading_active) =>
          \A p \in {positions_taken[k] : k \in DOMAIN positions_taken} :
             LET calls == last'.calls
                 closes == ClosingCalls(calls, p.symbol)
                 cancels == StopCancels(calls, p.symbol)
             IN  /\ Cardinality(closes) = 1
                 /\ \A k \in closes :
                       /\ calls[k].quantity = p.quantity
                       /\ p.direction = "BUY" => calls[k].transaction_type = "SELL"
                       /\ p.direction = "SELL" => calls[k].transaction_type = "BUY"
                 /\ IF "stop_loss_order_id" \in DOMAIN p
                    THEN /\ Cardinality(cancels) = 1
                         /\ \A c \in cancels : /\ calls[c].order_id = p.stop_loss_order_id
                                               /\ \A k \in closes : c < k
                    ELSE cancels = {}]_vars

\* a liquidation that closed a long position with a stop order and a short
\* position with a stop order: two cancel requests and two closing orders
C39_Witness ==
    /\ LiveLiquidation(last)
    /\ \E a, b \in DOMAIN last.calls :
          /\ last.calls[a].call = "cancel_order"
          /\ last.calls[b].call = "cancel_order"
          /\ last.calls[a].by = "close_all_positions"
          /\ last.calls[b].by = "close_all_positions"
          /\ a # b
    /\ \E a, b \in DOMAIN last.calls :
          /\ last.calls[a].call = "place_order"
          /\ last.calls[b].call = "place_order"
          /\ last.calls[a].by = "close_all_positions"
          /\ last.calls[b].by = "close_all_positions"
          /\ last.calls[a].transaction_type = "SELL"
          /\ last.calls[b].transaction_type = "BUY"

====================================================================
